---------------------------- MODULE Spec2Model ----------------------------
(***************************************************************************)
(* Risk & Comfort Composition Engine of the coastal health monitor.        *)
(*                                                                         *)
(* Numbers.  The code computes on JavaScript numbers.  Every quantity whose*)
(* thresholds are whole numbers (rainfall mm, wind mph, direction degrees, *)
(* UV index, temperatures) is modelled as an integer; wave heights, whose  *)
(* threshold is 1.5 m, are modelled in tenths (waveHeight = 15 is 1.5 m).  *)
(* Sub-scores of the comfort scorer are kept in tenths (0.2 .. 1.0 is      *)
(* 2 .. 10) and its weights in hundredths.                                 *)
(*                                                                         *)
(* Each component has its own specification over the same variables; the   *)
(* variables of the other components stay at their initial values.         *)
(***************************************************************************)
EXTENDS Integers, Sequences, FiniteSets, TLC

VARIABLES
    factors,        \* RiskFactors handed to the Risk Classifier
    officialStatus, \* optional regulator status handed to riskLevelToSafety
    risk,           \* result of the last classification
    prevRisk,       \* result for the input before the last increase of a factor
    riskOp,         \* which operation of the Risk Classifier ran last
    comfortFactors, \* ComfortFactors handed to the Comfort Scorer
    comfortScore,   \* its result
    comfortOp,      \* "input" before, "scored" after calculateComfortScore
    hourlyScores,   \* findBestWindow: the sequence of {time, score}
    windowHours,    \* findBestWindow: the window width
    bestWindow,     \* findBestWindow: the result, None for null
    windowOp,       \* "input" before, "done" after findBestWindow
    reports,        \* summarizeCommunityForBeach: the report list handed in
    summaryNow,     \* summarizeCommunityForBeach: the "now" instant (hours)
    summary,        \* summarizeCommunityForBeach: the result
    communityOp,    \* "input" before, "summarized" after
    reportsCache,   \* seedAdapter: the in-memory report list
    nextId,         \* seedAdapter: number of ids handed out so far
    clock,          \* the wall clock of the report store (hours)
    storeResp,      \* the last request to the report store and its response
    lastModeration, \* history: per report id, the last moderation applied to it
    pc,             \* alerts request: the step the handler is at
    request,        \* alerts request: the query parameters beach_id and lat/lng
    alertsNow,      \* alerts request: the instant `now` of the request
    beach,          \* alerts request: the resolved beach, None before
    outcome,        \* alerts request: how each upstream fetch ended
    fetched,        \* alerts request: statusData, envData, oceanData, communityData
    resolved,       \* alerts request: closestIndex per horizon, as last computed
    response,       \* alerts request: status and body of the response
    metrics,        \* lib/metrics.ts: the store entry of "/api/alerts"
    world,          \* repeated requests: the upstream snapshot and the probed request
    wallClock,      \* repeated requests: the clock read for as_of
    answers,        \* repeated requests: the responses given to the probed request
    cells,          \* grid interpreter: the forecast cells handed in
    envNow,         \* grid interpreter: the environmental bundle, None when absent
    official,       \* grid interpreter: the regulator status handed in
    tileSummary,    \* grid interpreter: the Summary returned
    gridOp,         \* grid interpreter: "idle", "input" or "summarized"
    tilesQuery,     \* tiles route: the query parameters of the request
    py,             \* tiles route: what the inference provider does with the POST
    tilesResponse,  \* tiles route: the response, status 0 before it is built
    tilesPc,        \* tiles route: "idle", "request" or "done"
    nameText,       \* name join: the name handed to normalizeBeachName
    normalized,     \* name join: its normalized form
    renormalized,   \* name join: the normalized form, normalized again
    nameOp,         \* name join: "idle", "input", "once" or "twice"
    recentStored,   \* recent beaches: the value under the storage key, None when absent
    viewClock,      \* recent beaches: Date.now() of the next call
    lastView        \* recent beaches: the last call, "add" with its beach id or "clear"

riskVars == <<factors, officialStatus, risk, prevRisk, riskOp>>
comfortVars == <<comfortFactors, comfortScore, comfortOp>>
windowVars == <<hourlyScores, windowHours, bestWindow, windowOp>>

communityVars == <<reports, summaryNow, summary, communityOp>>
storeVars == <<reportsCache, nextId, clock, storeResp, lastModeration>>

alertsVars == <<pc, request, alertsNow, beach, outcome, fetched, resolved, response>>

replayVars == <<metrics, world, wallClock, answers>>

gridVars == <<cells, envNow, official, tileSummary, gridOp>>

tilesVars == <<tilesQuery, py, tilesResponse, tilesPc>>

nameVars == <<nameText, normalized, renormalized, nameOp>>

recentVars == <<recentStored, viewClock, lastView>>

vars == <<riskVars, comfortVars, windowVars, communityVars, storeVars, alertsVars, replayVars,
          gridVars, tilesVars, nameVars, recentVars>>

\* JavaScript's undefined, for a value that is otherwise a string
Undefined == "undefined"

\* An optional number (absent: undefined or null) is a sequence of length 0 or 1.
None == <<>>
Some(x) == <<x>>

---------------------------------------------------------------------------
(* lib/risk.ts *)

isOnshore(windDir) ==
    (windDir >= 210 /\ windDir <= 330) \/ (windDir >= 180 /\ windDir <= 360)

\* faulty variant: a single point for heavy rain
calculateRiskPoints_flatRain(f) ==
    (IF f.rain72h >= 15 THEN 1 ELSE 0)
    + (IF isOnshore(f.windDir) /\ f.windSpeed > 12 THEN 1 ELSE 0)
    + (IF f.waveHeight >= 15 THEN 1 ELSE 0)
    + (IF f.uvIndex >= 7 THEN 1 ELSE 0)
    + (IF f.crowdReports # None /\ f.crowdReports[1] # 0 /\ f.crowdReports[1] >= 2
         THEN 1 ELSE 0)

\* faulty variant: calm onshore wind is penalised, strong onshore wind is not
calculateRiskPoints_windFlipped(f) ==
    (IF f.rain72h >= 25 THEN 2 ELSE IF f.rain72h >= 15 THEN 1 ELSE 0)
    + (IF isOnshore(f.windDir) /\ f.windSpeed <= 12 THEN 1 ELSE 0)
    + (IF f.waveHeight >= 15 THEN 1 ELSE 0)
    + (IF f.uvIndex >= 7 THEN 1 ELSE 0)
    + (IF f.crowdReports # None /\ f.crowdReports[1] # 0 /\ f.crowdReports[1] >= 2
         THEN 1 ELSE 0)

calculateRiskPoints(f) ==
    (IF f.rain72h >= 25 THEN 2 ELSE IF f.rain72h >= 15 THEN 1 ELSE 0)
    + (IF isOnshore(f.windDir) /\ f.windSpeed > 12 THEN 1 ELSE 0)
    + (IF f.waveHeight >= 15 THEN 1 ELSE 0)
    + (IF f.uvIndex >= 7 THEN 1 ELSE 0)
    + (IF f.crowdReports # None /\ f.crowdReports[1] # 0 /\ f.crowdReports[1] >= 2
         THEN 1 ELSE 0)

riskPointsToLevel(points) ==
    IF points >= 3 THEN "High"
    ELSE IF points = 2 THEN "Moderate"
    ELSE "Low"

\* faulty variant: the advisory override is dropped
riskLevelToSafety_noAdvisory(level, status) ==
    IF status = "closure" THEN "No-Go"
    ELSE IF level = "High" THEN "No-Go"
    ELSE IF level = "Moderate" THEN "Slow"
    ELSE "Go"

riskLevelToSafety(level, status) ==
    IF status = "closure" THEN "No-Go"
    ELSE IF status = "advisory" THEN "Slow"
    ELSE IF level = "High" THEN "No-Go"
    ELSE IF level = "Moderate" THEN "Slow"
    ELSE "Go"

\* One evaluation of the classifier chain on an input.
Classify(f, status) ==
    LET points == calculateRiskPoints(f)
        level  == riskPointsToLevel(points)
    IN  [points |-> points, level |-> level,
         safety |-> riskLevelToSafety(level, status)]

---------------------------------------------------------------------------
(* lib/comfort.ts.  Sub-scores in tenths, temperatures in whole degrees F, *)
(* wave height in millionths of a foot (metersToFeet of a height in tenths *)
(* of a metre is exact in that unit).                                      *)

scoreFeelsLike(temp) ==
    IF temp >= 72 /\ temp <= 78 THEN 10
    ELSE IF temp >= 68 /\ temp <= 82 THEN 8
    ELSE IF temp >= 64 /\ temp <= 86 THEN 6
    ELSE IF temp >= 60 /\ temp <= 90 THEN 4
    ELSE 2

scoreWaterTemp(temp) ==
    IF temp >= 66 /\ temp <= 72 THEN 10
    ELSE IF temp >= 62 /\ temp <= 76 THEN 8
    ELSE IF temp >= 58 /\ temp <= 80 THEN 6
    ELSE 4

scoreWind(speed, dir) ==
    IF speed > 12 /\ isOnshore(dir) THEN 3
    ELSE IF speed > 12 THEN 5
    ELSE IF speed >= 8 /\ speed <= 12 THEN 7
    ELSE 10

scoreUV(index) ==
    IF index >= 8 THEN 2
    ELSE IF index >= 7 THEN 5
    ELSE IF index >= 5 THEN 7
    ELSE 10

scoreWaves(height) ==
    IF height > 4000000 THEN 3
    ELSE IF height > 3000000 THEN 6
    ELSE IF height > 2000000 THEN 8
    ELSE 10

\* The sub-score tuples <<air, water, wind, uv, wave>> whose weighted total is
\* an exact half in hundredths but whose double-precision running sum
\* (0.3*air, + 0.2*water, + 0.15*wind, + 0.2*uv, + 0.15*wave, then * 100)
\* lands just below the half, so that Math.round rounds it down.
RoundsDown ==
    {
     <<2,4,3,7,6>>, <<2,4,3,7,8>>, <<2,4,5,7,6>>, <<2,4,7,5,6>>,
     <<2,4,7,10,8>>, <<2,5,3,7,6>>, <<2,5,5,5,6>>, <<2,5,5,5,8>>,
     <<2,5,5,10,8>>, <<2,5,7,5,6>>, <<2,5,10,2,3>>, <<2,5,10,7,3>>,
     <<2,6,3,5,6>>, <<2,6,3,5,8>>, <<2,6,3,7,6>>, <<2,6,3,10,8>>,
     <<2,6,3,10,10>>, <<2,6,5,5,6>>, <<2,6,5,10,8>>, <<2,6,7,2,6>>,
     <<2,6,7,2,8>>, <<2,6,7,7,6>>, <<2,6,7,7,8>>, <<2,6,7,7,10>>,
     <<2,6,7,10,6>>, <<2,6,10,5,3>>, <<2,8,3,5,6>>, <<2,8,7,2,6>>,
     <<2,8,7,7,6>>, <<2,10,3,2,6>>, <<2,10,3,7,6>>, <<2,10,3,7,8>>,
     <<2,10,5,7,6>>, <<2,10,7,5,6>>, <<2,10,7,10,6>>, <<4,4,3,5,6>>,
     <<4,4,3,10,8>>, <<4,4,7,2,6>>, <<4,4,7,7,6>>, <<4,4,7,7,8>>,
     <<4,4,10,5,3>>, <<4,5,3,5,6>>, <<4,5,5,2,6>>, <<4,5,5,2,8>>,
     <<4,5,5,7,6>>, <<4,5,5,7,8>>, <<4,5,7,2,6>>, <<4,5,7,7,6>>,
     <<4,6,3,2,6>>, <<4,6,3,2,8>>, <<4,6,3,7,6>>, <<4,6,3,7,8>>,
     <<4,6,3,7,10>>, <<4,6,3,10,6>>, <<4,6,5,2,6>>, <<4,6,5,7,6>>,
     <<4,6,5,7,8>>, <<4,6,7,5,6>>, <<4,6,7,5,8>>, <<4,6,7,7,6>>,
     <<4,6,7,10,6>>, <<4,6,7,10,8>>, <<4,8,3,2,6>>, <<4,8,3,7,6>>,
     <<4,8,7,5,6>>, <<4,10,3,5,6>>, <<4,10,3,10,6>>, <<4,10,7,2,6>>,
     <<4,10,7,7,6>>, <<6,4,3,2,6>>, <<6,4,3,7,6>>, <<6,4,3,7,8>>,
     <<6,4,5,7,6>>, <<6,4,7,5,6>>, <<6,4,7,10,6>>, <<6,5,3,2,6>>,
     <<6,5,3,7,6>>, <<6,5,7,5,6>>, <<6,6,3,5,6>>, <<6,6,3,5,8>>,
     <<6,6,3,7,6>>, <<6,6,3,10,6>>, <<6,6,3,10,8>>, <<6,6,5,5,6>>,
     <<6,6,5,10,6>>, <<6,6,7,2,6>>, <<6,6,7,2,8>>, <<6,6,7,7,6>>,
     <<6,6,7,7,8>>, <<6,8,3,5,6>>, <<6,8,7,2,6>>, <<6,10,3,2,6>>,
     <<6,10,3,7,6>>, <<8,4,3,5,6>>, <<8,4,3,10,6>>, <<8,4,7,2,6>>,
     <<8,4,7,7,6>>, <<8,5,3,2,6>>, <<8,5,3,2,8>>, <<8,5,3,2,10>>,
     <<8,5,3,5,6>>, <<8,5,3,7,6>>, <<8,5,3,7,8>>, <<8,5,5,2,6>>,
     <<8,5,5,2,8>>, <<8,5,5,7,6>>, <<8,5,7,2,6>>, <<8,5,7,5,6>>,
     <<8,5,7,5,8>>, <<8,6,3,2,6>>, <<8,6,3,2,8>>, <<8,6,3,7,6>>,
     <<8,6,3,7,8>>, <<8,6,5,2,6>>, <<8,6,5,7,6>>, <<8,6,7,5,6>>,
     <<8,8,3,2,6>>, <<10,4,3,2,6>>, <<10,4,3,7,6>>, <<10,5,3,2,6>>,
     <<10,6,3,5,6>>, <<10,10,5,5,6>>, <<10,10,5,10,6>>, <<10,10,5,10,8>>,
     <<10,10,7,10,6>>
    }

\* Math.round(totalScore * 100) of the running sum of the weighted sub-scores
WeightedRound(a, w, wi, u, wv) ==
    LET total == a * 30 + w * 20 + wi * 15 + u * 20 + wv * 15
    IN  IF <<a, w, wi, u, wv>> \in RoundsDown THEN total \div 10
        ELSE (total + 5) \div 10

\* faulty variant: the water sub-score weighted 0.30 instead of 0.20
calculateComfortScore_heavyWater(f) ==
    LET a  == scoreFeelsLike(f.feelsLike)
        w  == IF f.waterTemp # None /\ f.waterTemp[1] # 0
                THEN scoreWaterTemp(f.waterTemp[1]) ELSE 5
        wi == scoreWind(f.windSpeed, f.windDir)
        u  == scoreUV(f.uvIndex)
        wv == scoreWaves(f.waveHeight)
    IN  (a * 30 + w * 30 + wi * 15 + u * 20 + wv * 15 + 5) \div 10

\* `factors.waterTemp ? ... : 0.5`: null and 0 are both falsy
calculateComfortScore(f) ==
    WeightedRound(scoreFeelsLike(f.feelsLike),
                  IF f.waterTemp # None /\ f.waterTemp[1] # 0
                    THEN scoreWaterTemp(f.waterTemp[1]) ELSE 5,
                  scoreWind(f.windSpeed, f.windDir),
                  scoreUV(f.uvIndex),
                  scoreWaves(f.waveHeight))

metersToFeet(m) == m * 328084

\* Sum of the scores of hs[from .. to] (1-based, inclusive): window.reduce
RECURSIVE SumScores(_, _, _)
SumScores(hs, from, to) ==
    IF from > to THEN 0 ELSE hs[from].score + SumScores(hs, from + 1, to)

\* The loop of findBestWindow from 0-based index i on.  avg = sum / windowHours
\* is compared by its numerator: maxSum stands for maxAvg * windowHours.
RECURSIVE BestWindowScan(_, _, _, _, _)
BestWindowScan(hs, w, i, maxSum, best) ==
    IF i > Len(hs) - w THEN best
    ELSE LET sum == SumScores(hs, i + 1, i + w)
         IN  IF sum > maxSum
               THEN BestWindowScan(hs, w, i + 1, sum,
                        Some([start |-> hs[i + 1].time, end |-> hs[i + w].time,
                              sum |-> sum]))
               ELSE BestWindowScan(hs, w, i + 1, maxSum, best)

\* faulty variant: a later window replaces an equally good earlier one
RECURSIVE BestWindowScan_lastWins(_, _, _, _, _)
BestWindowScan_lastWins(hs, w, i, maxSum, best) ==
    IF i > Len(hs) - w THEN best
    ELSE LET sum == SumScores(hs, i + 1, i + w)
         IN  IF sum >= maxSum
               THEN BestWindowScan_lastWins(hs, w, i + 1, sum,
                        Some([start |-> hs[i + 1].time, end |-> hs[i + w].time,
                              sum |-> sum]))
               ELSE BestWindowScan_lastWins(hs, w, i + 1, maxSum, best)

findBestWindow_lastWins(hs, w) ==
    IF Len(hs) < w THEN None
    ELSE BestWindowScan_lastWins(hs, w, 0, -w, None)

\* maxAvg starts at -1, that is maxSum at -windowHours
findBestWindow(hs, w) ==
    IF Len(hs) < w THEN None
    ELSE BestWindowScan(hs, w, 0, -w, None)

---------------------------------------------------------------------------
(* lib/community.ts and lib/haversine.ts.  Times are whole hours.  A        *)
(* position is a latitude measured in metres of arc along the beach's      *)
(* meridian, on which the great-circle distance is the difference.         *)

haversineMeters(lat1, lat2) == IF lat1 >= lat2 THEN lat1 - lat2 ELSE lat2 - lat1

\* faulty variant: the window test is turned around and counts the reports
\* from before the window
CountReports_beforeWindow(rs, type, since) ==
    Len(SelectSeq(rs, LAMBDA r : r.type = type /\ r.created_at <= since))

\* reports.filter(...).length for one type and one window start
CountReports(rs, type, since) ==
    Len(SelectSeq(rs, LAMBDA r : r.type = type /\ r.created_at >= since))

LevelFromTotals(total_2h, total_24h) ==
    IF total_2h >= 4 \/ total_24h >= 6 THEN "strong"
    ELSE IF total_2h >= 2 THEN "moderate"
    ELSE IF total_2h >= 1 THEN "minor"
    ELSE "none"

WhyLine(kind, a, b, radius) == [kind |-> kind, a |-> a, b |-> b, radius |-> radius]

communityWhy(odor_2h, debris_2h, total_24h, radiusMeters) ==
    LET total_2h == odor_2h + debris_2h
    IN  (IF total_2h > 0
           THEN IF odor_2h > 0 /\ debris_2h > 0
                  THEN <<WhyLine("odor + debris reports in last 2h within",
                                 odor_2h, debris_2h, radiusMeters)>>
                ELSE IF odor_2h > 0
                  THEN <<WhyLine("odor reports in last 2h within",
                                 odor_2h, 0, radiusMeters)>>
                ELSE <<WhyLine("debris reports in last 2h within",
                               debris_2h, 0, radiusMeters)>>
           ELSE <<>>)
        \o (IF total_24h > total_2h
              THEN <<WhyLine("total reports in last 24h", total_24h, 0, 0)>>
              ELSE <<>>)

\* faulty variant: the approval filter keeps every moderated report
summarizeCommunityForBeach_anyModerated(beachLat, now, radiusMeters, rs) ==
    LET approved   == SelectSeq(rs, LAMBDA r : r.moderated)
        nearby     == SelectSeq(approved,
                          LAMBDA r : haversineMeters(beachLat, r.lat) <= radiusMeters)
        odor_2h    == CountReports(nearby, "odor", now - 2)
        debris_2h  == CountReports(nearby, "debris", now - 2)
        odor_24h   == CountReports(nearby, "odor", now - 24)
        debris_24h == CountReports(nearby, "debris", now - 24)
        total_2h   == odor_2h + debris_2h
    IN  [level  |-> LevelFromTotals(total_2h, odor_24h + debris_24h),
         type   |-> IF total_2h > 0
                      THEN (IF odor_2h >= debris_2h THEN "odor" ELSE "debris")
                      ELSE "null",
         counts |-> [odor_2h |-> odor_2h, debris_2h |-> debris_2h,
                     odor_24h |-> odor_24h, debris_24h |-> debris_24h],
         why    |-> communityWhy(odor_2h, debris_2h, odor_24h + debris_24h,
                                 radiusMeters)]

\* faulty variant: "strong" needs both the 2h and the 24h threshold
summarizeCommunityForBeach_bothThresholds(beachLat, now, radiusMeters, rs) ==
    LET approved   == SelectSeq(rs, LAMBDA r : r.moderated /\ r.approved)
        nearby     == SelectSeq(approved,
                          LAMBDA r : haversineMeters(beachLat, r.lat) <= radiusMeters)
        odor_2h    == CountReports(nearby, "odor", now - 2)
        debris_2h  == CountReports(nearby, "debris", now - 2)
        odor_24h   == CountReports(nearby, "odor", now - 24)
        debris_24h == CountReports(nearby, "debris", now - 24)
        total_2h   == odor_2h + debris_2h
        total_24h  == odor_24h + debris_24h
    IN  [level  |-> IF total_2h >= 4 /\ total_24h >= 6 THEN "strong"
                    ELSE IF total_2h >= 2 THEN "moderate"
                    ELSE IF total_2h >= 1 THEN "minor"
                    ELSE "none",
         type   |-> IF total_2h > 0
                      THEN (IF odor_2h >= debris_2h THEN "odor" ELSE "debris")
                      ELSE "null",
         counts |-> [odor_2h |-> odor_2h, debris_2h |-> debris_2h,
                     odor_24h |-> odor_24h, debris_24h |-> debris_24h],
         why    |-> communityWhy(odor_2h, debris_2h, total_24h, radiusMeters)]

summarizeCommunityForBeach(beachLat, now, radiusMeters, rs) ==
    LET approved   == SelectSeq(rs, LAMBDA r : r.moderated /\ r.approved)
        nearby     == SelectSeq(approved,
                          LAMBDA r : haversineMeters(beachLat, r.lat) <= radiusMeters)
        odor_2h    == CountReports(nearby, "odor", now - 2)
        debris_2h  == CountReports(nearby, "debris", now - 2)
        odor_24h   == CountReports(nearby, "odor", now - 24)
        debris_24h == CountReports(nearby, "debris", now - 24)
        total_2h   == odor_2h + debris_2h
        total_24h  == odor_24h + debris_24h
    IN  [level  |-> LevelFromTotals(total_2h, total_24h),
         type   |-> IF total_2h > 0
                      THEN (IF odor_2h >= debris_2h THEN "odor" ELSE "debris")
                      ELSE "null",
         counts |-> [odor_2h |-> odor_2h, debris_2h |-> debris_2h,
                     odor_24h |-> odor_24h, debris_24h |-> debris_24h],
         why    |-> communityWhy(odor_2h, debris_2h, total_24h, radiusMeters)]

\* The summary the routes fall back to
NeutralSummary ==
    [level |-> "none", type |-> "null",
     counts |-> [odor_2h |-> 0, debris_2h |-> 0, odor_24h |-> 0, debris_24h |-> 0],
     why |-> <<>>]

---------------------------------------------------------------------------
(* Strings that the code inspects are sequences of one-character strings. *)

Uppers ==
    <<"A", "B", "C", "D", "E", "F", "G", "H", "I", "J", "K", "L", "M",
      "N", "O", "P", "Q", "R", "S", "T", "U", "V", "W", "X", "Y", "Z">>
Lowers ==
    <<"a", "b", "c", "d", "e", "f", "g", "h", "i", "j", "k", "l", "m",
      "n", "o", "p", "q", "r", "s", "t", "u", "v", "w", "x", "y", "z">>
WordChars ==
    {Uppers[k] : k \in 1..26} \cup {Lowers[k] : k \in 1..26}
        \cup {"0", "1", "2", "3", "4", "5", "6", "7", "8", "9", "_"}
IsSpace(c) == c = " "

toLowerCase(str) ==
    [i \in 1..Len(str) |->
        IF \E k \in 1..26 : Uppers[k] = str[i]
          THEN Lowers[CHOOSE k \in 1..26 : Uppers[k] = str[i]]
          ELSE str[i]]

\* String.prototype.includes
Includes(str, sub) ==
    \E i \in 1..(Len(str) - Len(sub) + 1) : SubSeq(str, i, i + Len(sub) - 1) = sub

RECURSIVE TrimStart(_)
TrimStart(str) ==
    IF str # <<>> /\ IsSpace(Head(str)) THEN TrimStart(Tail(str)) ELSE str

RECURSIVE TrimEnd(_)
TrimEnd(str) ==
    IF str # <<>> /\ IsSpace(str[Len(str)])
      THEN TrimEnd(SubSeq(str, 1, Len(str) - 1)) ELSE str

\* .replace(/\s+/g, " ")
RECURSIVE CollapseSpaces(_)
CollapseSpaces(str) ==
    IF str = <<>> THEN <<>>
    ELSE IF IsSpace(Head(str))
      THEN <<" ">> \o CollapseSpaces(TrimStart(str))
      ELSE <<Head(str)>> \o CollapseSpaces(Tail(str))

Beach_ == <<"b", "e", "a", "c", "h">>

\* .replace(/\s+beach$/i, "")
StripTrailingBeach(str) ==
    LET n == Len(str)
    IN  IF n >= 6 /\ toLowerCase(SubSeq(str, n - 4, n)) = Beach_ /\ IsSpace(str[n - 5])
          THEN TrimEnd(SubSeq(str, 1, n - 5))
          ELSE str

\* .replace(/^beach\s+/i, "")
StripLeadingBeach(str) ==
    IF Len(str) >= 6 /\ toLowerCase(SubSeq(str, 1, 5)) = Beach_ /\ IsSpace(str[6])
      THEN TrimStart(SubSeq(str, 6, Len(str)))
      ELSE str

\* lib/normalize.ts
normalizeBeachName(name) ==
    StripLeadingBeach(
        StripTrailingBeach(
            SelectSeq(CollapseSpaces(TrimEnd(TrimStart(toLowerCase(name)))),
                      LAMBDA c : c \in WordChars \/ IsSpace(c))))

---------------------------------------------------------------------------
(* app/api/alerts/route.ts: the pure parts of the composition.             *)
(* Instants are counted in half-hours, so an hour is 2; `time[i]` of the   *)
(* weather bundle stands for new Date(hourly.time[i]).getTime().  Arrays   *)
(* are sequences read with 0-based indices as in the code.                 *)

AbsDiff(a, b) == IF a >= b THEN a - b ELSE b - a

\* arr[i] || dflt for i >= 0: a missing entry and 0 both give the default
OrDefault(arr, i, dflt) ==
    IF i + 1 <= Len(arr) /\ arr[i + 1] # 0 THEN arr[i + 1] ELSE dflt

\* The variables of the scan loop; minDiff is None for Number.POSITIVE_INFINITY
ScanState(minDiff, closestIndex) == [minDiff |-> minDiff, closestIndex |-> closestIndex]

\* One turn of the loop: if (diff < minDiff) { minDiff = diff; closestIndex = i }
ScanStep(time, target, i, st) ==
    IF st.minDiff = None \/ AbsDiff(time[i + 1], target) < st.minDiff[1]
      THEN ScanState(Some(AbsDiff(time[i + 1], target)), i)
      ELSE st

\* The turns lo .. hi - 1 of the loop, in order, from the loop variables st.
\* The range is run in two halves; the test on st.closestIndex is never true
\* and only makes the state after the first half be computed before the
\* second half is entered, which keeps the evaluation shallow.
RECURSIVE ScanRange(_, _, _, _, _)
ScanRange(time, target, lo, hi, st) ==
    IF lo >= hi \/ st.closestIndex >= hi THEN st
    ELSE IF hi = lo + 1 THEN ScanStep(time, target, lo, st)
    ELSE ScanRange(time, target, (lo + hi) \div 2, hi,
                   ScanRange(time, target, lo, (lo + hi) \div 2, st))

\* The scan for the closest timestamp from index i on
ClosestScan(time, target, i, minDiff, closestIndex) ==
    ScanRange(time, target, i, Len(time), ScanState(minDiff, closestIndex)).closestIndex

\* faulty variant: a later timestamp that is equally close replaces the earlier one
ScanStep_orEqual(time, target, i, st) ==
    IF st.minDiff = None \/ AbsDiff(time[i + 1], target) <= st.minDiff[1]
      THEN ScanState(Some(AbsDiff(time[i + 1], target)), i)
      ELSE st

RECURSIVE ScanRange_orEqual(_, _, _, _, _)
ScanRange_orEqual(time, target, lo, hi, st) ==
    IF lo >= hi \/ st.closestIndex >= hi THEN st
    ELSE IF hi = lo + 1 THEN ScanStep_orEqual(time, target, lo, st)
    ELSE ScanRange_orEqual(time, target, (lo + hi) \div 2, hi,
                           ScanRange_orEqual(time, target, lo, (lo + hi) \div 2, st))

ClosestScan_lastWins(time, target, i, minDiff, closestIndex) ==
    ScanRange_orEqual(time, target, i, Len(time),
                      ScanState(minDiff, closestIndex)).closestIndex

ClosestIndex_lastWins(time, target) == ClosestScan_lastWins(time, target, 0, None, 0)

\* faulty variant: the scan starts at index 1
ClosestIndex_skipFirst(time, target) == ClosestScan(time, target, 1, None, 0)

ClosestIndex(time, target) == ClosestScan(time, target, 0, None, 0)

\* The turns lo .. hi - 1 of the loop `sum += precip[i] || 0`, in order, from
\* the running sum.  The range is run in two halves; the test on sum is never
\* true for a rainfall series and only makes the sum of the first half be
\* computed before the second half is entered.
RECURSIVE SumRange(_, _, _, _)
SumRange(precip, lo, hi, sum) ==
    IF lo >= hi \/ sum < 0 THEN sum
    ELSE IF hi = lo + 1 THEN sum + OrDefault(precip, lo, 0)
    ELSE SumRange(precip, (lo + hi) \div 2, hi,
                  SumRange(precip, lo, (lo + hi) \div 2, sum))

SumPrecip(precip, from, last) == SumRange(precip, from, last + 1, 0)

\* for (i = max(0, closestIndex - 72); i <= closestIndex; i++) rain72h += precip[i] || 0
Rain72hAt(precip, closestIndex) ==
    SumPrecip(precip, IF closestIndex - 72 > 0 THEN closestIndex - 72 ELSE 0, closestIndex)

RiskFactorsAt(hourly, closestIndex) ==
    [rain72h      |-> Rain72hAt(hourly.precip, closestIndex),
     windSpeed    |-> OrDefault(hourly.wind_spd, closestIndex, 0),
     windDir      |-> OrDefault(hourly.wind_dir, closestIndex, 0),
     waveHeight   |-> OrDefault(hourly.wave_h, closestIndex, 0),
     uvIndex      |-> OrDefault(hourly.uv, closestIndex, 0),
     crowdReports |-> None]

\* faulty variant: the community point is added at every horizon
getRiskAtHour_everyHorizon(hourly, now, hourOffset, communityLevel) ==
    IF Len(hourly.time) = 0 THEN "Low"
    ELSE LET closestIndex == ClosestIndex(hourly.time, now + 2 * hourOffset)
             riskPoints   == calculateRiskPoints(RiskFactorsAt(hourly, closestIndex))
             adjusted     == IF communityLevel \in {"moderate", "strong"}
                               THEN riskPoints + 1 ELSE riskPoints
         IN  riskPointsToLevel(adjusted)

getRiskAtHour(hourly, now, hourOffset, communityLevel) ==
    IF Len(hourly.time) = 0 THEN "Low"
    ELSE LET closestIndex == ClosestIndex(hourly.time, now + 2 * hourOffset)
             riskPoints   == calculateRiskPoints(RiskFactorsAt(hourly, closestIndex))
             adjusted     == IF hourOffset = 0 /\ communityLevel \in {"moderate", "strong"}
                               THEN riskPoints + 1 ELSE riskPoints
         IN  riskPointsToLevel(adjusted)

\* oceanData.water_temp_now?.value || null
WaterTempOf(oceanData) ==
    IF oceanData.water_temp_now # None /\ oceanData.water_temp_now[1] # 0
      THEN oceanData.water_temp_now ELSE None

ComfortFactorsAt(hourly, closestIndex, oceanData) ==
    LET airTemp == OrDefault(hourly.temp, closestIndex, 70)
    IN  [airTemp    |-> airTemp,
         feelsLike  |-> OrDefault(hourly.app_temp, closestIndex, airTemp),
         waterTemp  |-> WaterTempOf(oceanData),
         windSpeed  |-> OrDefault(hourly.wind_spd, closestIndex, 0),
         windDir    |-> OrDefault(hourly.wind_dir, closestIndex, 0),
         uvIndex    |-> OrDefault(hourly.uv, closestIndex, 0),
         waveHeight |-> metersToFeet(OrDefault(hourly.wave_h, closestIndex, 0))]

getComfortAtHour(hourly, now, hourOffset, oceanData) ==
    IF Len(hourly.time) = 0 THEN 50
    ELSE calculateComfortScore(
             ComfortFactorsAt(hourly, ClosestIndex(hourly.time, now + 2 * hourOffset),
                              oceanData))

\* The regulator entry joined to the beach: statusData.beaches?.find(...)
CountyStatusOf(statusBeaches, b) ==
    LET beachNormalized == normalizeBeachName(b.name)
        hits == {i \in 1..Len(statusBeaches) :
                    \/ normalizeBeachName(statusBeaches[i].name) = beachNormalized
                    \/ Includes(toLowerCase(statusBeaches[i].name),
                                toLowerCase(b.name))}
    IN  IF hits = {} THEN None
        ELSE Some(statusBeaches[CHOOSE i \in hits : \A j \in hits : i <= j])

\* countyStatus?.status
StatusOf(countyStatus) ==
    IF countyStatus = None THEN Undefined ELSE countyStatus[1].status

officialStateOf(countyStatus) ==
    IF StatusOf(countyStatus) = "closure" THEN "Closed"
    ELSE IF StatusOf(countyStatus) = "advisory" THEN "Advisory"
    ELSE "Open"

SewageWords ==
    {<<"s", "e", "w", "a", "g", "e">>,
     <<"t", "r", "a", "n", "s", "b", "o", "u", "n", "d", "a", "r", "y">>,
     <<"t", "i", "j", "u", "a", "n", "a">>,
     <<"w", "a", "s", "t", "e", "w", "a", "t", "e", "r">>,
     <<"s", "p", "i", "l", "l">>}

SOUTH_BAY_BEACHES ==
    {<<"i", "m", "p", "e", "r", "i", "a", "l", " ", "b", "e", "a", "c", "h">>,
     <<"s", "i", "l", "v", "e", "r", " ", "s", "t", "r", "a", "n", "d">>,
     <<"c", "o", "r", "o", "n", "a", "d", "o">>}

\* countyStatus?.reason || null, with <<>> for null
officialReasonOf(countyStatus) ==
    IF countyStatus = None THEN <<>> ELSE countyStatus[1].reason

isSewageRelated(officialReason) ==
    \E w \in SewageWords : Includes(toLowerCase(officialReason), w)

isSouthBay(b) ==
    \E sb \in SOUTH_BAY_BEACHES : Includes(normalizeBeachName(b.name), sb)

---------------------------------------------------------------------------
(* Inputs of the Risk Classifier: values on both sides of every threshold *)

RainValues  == {0, 14, 15, 24, 25}
SpeedValues == {0, 12, 13}
DirValues   == {0, 179, 180, 360}
WaveValues  == {14, 15, 30}
UvValues    == {6, 7, 11}
CrowdValues == {None, Some(0), Some(1), Some(2)}
StatusValues == {Undefined, "open", "advisory", "closure"}

RiskFactorsSet ==
    [rain72h : RainValues, windSpeed : SpeedValues, windDir : DirValues,
     waveHeight : WaveValues, uvIndex : UvValues, crowdReports : CrowdValues]

NoResult == [points |-> -1, level |-> "none", safety |-> "none"]

RiskIdle ==
    /\ factors = [rain72h |-> 0, windSpeed |-> 0, windDir |-> 0,
                  waveHeight |-> 0, uvIndex |-> 0, crowdReports |-> None]
    /\ officialStatus = Undefined
    /\ risk = NoResult
    /\ prevRisk = NoResult
    /\ riskOp = "idle"

RiskInit ==
    /\ factors \in RiskFactorsSet
    /\ officialStatus \in StatusValues
    /\ risk = NoResult
    /\ prevRisk = NoResult
    /\ riskOp = "input"

\* calculateRiskPoints, riskPointsToLevel and riskLevelToSafety on the input
CalculateRisk ==
    /\ riskOp = "input"
    /\ risk' = Classify(factors, officialStatus)
    /\ riskOp' = "classified"
    /\ UNCHANGED <<factors, officialStatus, prevRisk>>
    /\ UNCHANGED <<comfortVars, windowVars, communityVars, storeVars, alertsVars, replayVars, gridVars, tilesVars, nameVars, recentVars>>

\* The same chain on an input that differs from the classified one in one
\* numeric factor, which is larger.
IncreaseFactor ==
    /\ riskOp = "classified"
    /\ \/ \E name \in {"rain72h", "windSpeed", "waveHeight", "uvIndex"} :
            \E v \in RainValues \cup SpeedValues \cup WaveValues \cup UvValues :
               /\ v > factors[name]
               /\ factors' = [factors EXCEPT ![name] = v]
               /\ factors' \in RiskFactorsSet
       \/ \E c \in CrowdValues \ {None} :
            /\ factors.crowdReports # None
            /\ c[1] > factors.crowdReports[1]
            /\ factors' = [factors EXCEPT !.crowdReports = c]
    /\ prevRisk' = risk
    /\ risk' = Classify(factors', officialStatus)
    /\ riskOp' = "increased"
    /\ UNCHANGED officialStatus
    /\ UNCHANGED <<comfortVars, windowVars, communityVars, storeVars, alertsVars, replayVars, gridVars, tilesVars, nameVars, recentVars>>

RiskNext == CalculateRisk \/ IncreaseFactor

---------------------------------------------------------------------------
(* Inputs of the Comfort Scorer: a value in every band of every sub-score *)

FeelsLikeValues == {59, 60, 64, 68, 72, 79}
WaterValues == {None, Some(0), Some(57), Some(58), Some(62), Some(66), Some(73)}
ComfortSpeedValues == {7, 8, 13}
ComfortDirValues == {0, 180}
ComfortUvValues == {4, 5, 7, 8}
WaveFeetValues == {2000000, 2000001, 3000001, 4000001}

ComfortFactorsSet ==
    [airTemp : {70}, feelsLike : FeelsLikeValues, waterTemp : WaterValues,
     windSpeed : ComfortSpeedValues, windDir : ComfortDirValues,
     uvIndex : ComfortUvValues, waveHeight : WaveFeetValues]

ComfortIdle ==
    /\ comfortFactors = [airTemp |-> 70, feelsLike |-> 70, waterTemp |-> None,
                         windSpeed |-> 0, windDir |-> 0, uvIndex |-> 0,
                         waveHeight |-> 0]
    /\ comfortScore = -1
    /\ comfortOp = "idle"

ComfortInit ==
    /\ comfortFactors \in ComfortFactorsSet
    /\ comfortScore = -1
    /\ comfortOp = "input"

CalculateComfort ==
    /\ comfortOp = "input"
    /\ comfortScore' = calculateComfortScore(comfortFactors)
    /\ comfortOp' = "scored"
    /\ UNCHANGED comfortFactors
    /\ UNCHANGED <<riskVars, windowVars, communityVars, storeVars, alertsVars, replayVars, gridVars, tilesVars, nameVars, recentVars>>

ComfortNext == CalculateComfort

---------------------------------------------------------------------------
(* Inputs of findBestWindow: every sequence of up to MaxScores comfort     *)
(* scores, the entry at 0-based index i carrying the time i, and every     *)
(* width from 1 to MaxWindow.                                              *)

MaxScores == 5
MaxWindow == 3
ScoreValues == {30, 40, 60, 85, 90}

HourlyScoresSet ==
    UNION {{[i \in 1..n |-> [time |-> i - 1, score |-> sc[i]]] :
                sc \in [1..n -> ScoreValues]} : n \in 0..MaxScores}

WindowIdle ==
    /\ hourlyScores = <<>>
    /\ windowHours = 0
    /\ bestWindow = None
    /\ windowOp = "idle"

WindowInit ==
    /\ hourlyScores \in HourlyScoresSet
    /\ windowHours \in 1..MaxWindow
    /\ bestWindow = None
    /\ windowOp = "input"

FindBestWindow ==
    /\ windowOp = "input"
    /\ bestWindow' = findBestWindow(hourlyScores, windowHours)
    /\ windowOp' = "done"
    /\ UNCHANGED <<hourlyScores, windowHours>>
    /\ UNCHANGED <<riskVars, comfortVars, communityVars, storeVars, alertsVars, replayVars, gridVars, tilesVars, nameVars, recentVars>>

WindowNext == FindBestWindow

---------------------------------------------------------------------------
(* The beach registry: two of MOCK_BEACHES, placed on one meridian 2000 m   *)
(* apart.                                                                  *)

Beaches ==
    <<[id |-> 1, name |-> <<"L", "a", " ", "J", "o", "l", "l", "a", " ", "S", "h", "o", "r", "e", "s">>,
       lat |-> 2000],
      [id |-> 6, name |-> <<"I", "m", "p", "e", "r", "i", "a", "l", " ", "B", "e", "a", "c", "h">>,
       lat |-> 0]>>

\* The linear scan of a registry for the minimum distance, first minimum kept
RECURSIVE NearestScan(_, _, _, _, _)
NearestScan(registry, lat, i, minDist, best) ==
    IF i > Len(registry) THEN best
    ELSE LET d == haversineMeters(registry[i].lat, lat)
         IN  IF minDist = None \/ d < minDist[1]
               THEN NearestScan(registry, lat, i + 1, Some(d), Some(registry[i]))
               ELSE NearestScan(registry, lat, i + 1, minDist, best)

NearestBeach(registry, lat) == NearestScan(registry, lat, 1, None, None)

DefaultRadiusMeters == 500

---------------------------------------------------------------------------
(* Inputs of summarizeCommunityForBeach: every list of up to MaxReports    *)
(* reports of these kinds, summarized at hour SummaryHour for the beach at *)
(* latitude 0.                                                             *)

MaxReports == 6
SummaryHour == 30

Report(id, type, lat, beach_id, created_at, moderated, approved) ==
    [id |-> id, type |-> type, lat |-> lat, beach_id |-> beach_id,
     created_at |-> created_at, moderated |-> moderated, approved |-> approved]

ReportKinds ==
    { Report(0, "odor",   500, 6, SummaryHour - 2,  TRUE, TRUE),   \* edge of the 2h window and of the radius
      Report(0, "debris", 0,   6, SummaryHour,      TRUE, TRUE),
      Report(0, "debris", 0,   6, SummaryHour - 24, TRUE, TRUE),   \* edge of the 24h window
      Report(0, "odor",   0,   6, SummaryHour - 25, TRUE, TRUE),   \* too old
      Report(0, "odor",   0,   6, SummaryHour,      TRUE, FALSE),  \* rejected
      Report(0, "odor",   501, 6, SummaryHour,      TRUE, TRUE) }  \* outside the radius

ReportListSet == UNION {[1..n -> ReportKinds] : n \in 0..MaxReports}

CommunityIdle ==
    /\ reports = <<>>
    /\ summaryNow = 0
    /\ summary = NeutralSummary
    /\ communityOp = "idle"

CommunityInit ==
    /\ reports \in ReportListSet
    /\ summaryNow = SummaryHour
    /\ summary = NeutralSummary
    /\ communityOp = "input"

Summarize ==
    /\ communityOp = "input"
    /\ summary' = summarizeCommunityForBeach(0, summaryNow, DefaultRadiusMeters, reports)
    /\ communityOp' = "summarized"
    /\ UNCHANGED <<reports, summaryNow>>
    /\ UNCHANGED <<riskVars, comfortVars, windowVars, storeVars, alertsVars, replayVars, gridVars, tilesVars, nameVars, recentVars>>

CommunityNext == Summarize

---------------------------------------------------------------------------
(* The report store: seedAdapter behind POST/GET /api/reports, the         *)
(* moderation route and GET /api/community/summary.                        *)

MaxStore == 2
StoreHours == {0, 2, 3}
ReportLats == {500, 1600}

\* A request to the store with its response body: the listed reports of
\* GET /api/reports, the summary of GET /api/community/summary.
Response(op, all, beachId, listed, sum) ==
    [op |-> op, all |-> all, beach_id |-> beachId, reports |-> listed, summary |-> sum]

NoResponse == Response("none", FALSE, None, <<>>, NeutralSummary)

\* observations.json: no report, or one report in any moderation state
SeedReports ==
    {<<>>} \cup {<<Report(0, "odor", 500, 6, 0, m, a)>> : m \in BOOLEAN, a \in BOOLEAN}

StoreIdle ==
    /\ reportsCache = <<>>
    /\ nextId = 0
    /\ clock = 0
    /\ storeResp = NoResponse
    /\ lastModeration = [i \in {0} |-> "seed"]

StoreInit ==
    /\ reportsCache \in SeedReports
    /\ nextId = 0
    /\ clock = 0
    /\ storeResp = NoResponse
    /\ lastModeration = [i \in {0} |-> "seed"]

\* faulty variant: the stored report keeps the moderation flags of the request body
addReport_trustBody(type, lat, beach_id) ==
    Append(reportsCache, Report(nextId + 1, type, lat, beach_id, clock, TRUE, TRUE))

\* seedAdapter.addReport: the cache after the call
addReport(type, lat, beach_id) ==
    Append(reportsCache, Report(nextId + 1, type, lat, beach_id, clock, FALSE, FALSE))

\* POST /api/reports: the report is snapped to the nearest beach and stored
AddReport ==
    /\ Len(reportsCache) < MaxStore
    /\ \E type \in {"odor", "debris"}, lat \in ReportLats :
         reportsCache' = addReport(type, lat, NearestBeach(Beaches, lat)[1].id)
    /\ nextId' = nextId + 1
    /\ storeResp' = Response("add", FALSE, None, <<>>, NeutralSummary)
    /\ lastModeration' = [i \in 0..(nextId + 1) |->
                              IF i = nextId + 1 THEN "none" ELSE lastModeration[i]]
    /\ UNCHANGED clock
    /\ UNCHANGED <<riskVars, comfortVars, windowVars, communityVars, alertsVars, replayVars, gridVars, tilesVars, nameVars, recentVars>>

\* Index of the first report with the id, 0 when there is none: find()
FindReport(id) ==
    LET hits == {i \in 1..Len(reportsCache) : reportsCache[i].id = id}
    IN  IF hits = {} THEN 0 ELSE CHOOSE i \in hits : \A j \in hits : i <= j

\* faulty variant: moderation marks the report approved whatever the action
moderate_alwaysApprove(id, action) ==
    LET i == FindReport(id)
    IN  IF i = 0 THEN reportsCache
        ELSE [reportsCache EXCEPT ![i].moderated = TRUE, ![i].approved = TRUE]

\* seedAdapter.moderate: the cache after the call
moderate(id, action) ==
    LET i == FindReport(id)
    IN  IF i = 0 THEN reportsCache
        ELSE [reportsCache EXCEPT ![i].moderated = TRUE,
                                  ![i].approved = (action = "approve")]

\* POST /api/admin/reports/[id]/moderate with a boolean `approved`, for the
\* id of a stored report or an id no report has
Moderate ==
    /\ \E id \in 0..(nextId + 1), approved \in BOOLEAN :
         LET action == IF approved THEN "approve" ELSE "reject"
         IN  /\ reportsCache' = moderate(id, action)
             /\ lastModeration' = IF FindReport(id) = 0 THEN lastModeration
                                  ELSE [lastModeration EXCEPT ![id] = action]
    /\ storeResp' = Response("moderate", FALSE, None, <<>>, NeutralSummary)
    /\ UNCHANGED <<nextId, clock>>
    /\ UNCHANGED <<riskVars, comfortVars, windowVars, communityVars, alertsVars, replayVars, gridVars, tilesVars, nameVars, recentVars>>

\* Time passes
Tick ==
    /\ \E h \in StoreHours : h > clock /\ clock' = h
    /\ storeResp' = NoResponse
    /\ UNCHANGED <<reportsCache, nextId, lastModeration>>
    /\ UNCHANGED <<riskVars, comfortVars, windowVars, communityVars, alertsVars, replayVars, gridVars, tilesVars, nameVars, recentVars>>

\* faulty variant: the public listing keeps every moderated report
listReports_anyModerated(all, beachId) ==
    LET visible == IF all THEN reportsCache
                   ELSE SelectSeq(reportsCache, LAMBDA r : r.moderated)
    IN  IF beachId # None
          THEN SelectSeq(visible, LAMBDA r : r.beach_id = beachId[1])
          ELSE visible

\* GET /api/reports: the `reports` of the body
listReports(all, beachId) ==
    LET visible == IF all THEN reportsCache
                   ELSE SelectSeq(reportsCache, LAMBDA r : r.moderated /\ r.approved)
    IN  IF beachId # None
          THEN SelectSeq(visible, LAMBDA r : r.beach_id = beachId[1])
          ELSE visible

GetReports ==
    /\ \E all \in BOOLEAN, beachId \in {None, Some(1), Some(6)} :
         storeResp' = Response("list", all, beachId, listReports(all, beachId),
                               NeutralSummary)
    /\ UNCHANGED <<reportsCache, nextId, clock, lastModeration>>
    /\ UNCHANGED <<riskVars, comfortVars, windowVars, communityVars, alertsVars, replayVars, gridVars, tilesVars, nameVars, recentVars>>

\* GET /api/community/summary for a beach: the reports of that beach from
\* GET /api/reports, summarized at the current instant with the default radius
GetCommunitySummary ==
    /\ \E b \in 1..Len(Beaches) :
         storeResp' = Response("summary", FALSE, Some(Beaches[b].id), <<>>,
                          summarizeCommunityForBeach(Beaches[b].lat, clock,
                              DefaultRadiusMeters,
                              listReports(FALSE, Some(Beaches[b].id))))
    /\ UNCHANGED <<reportsCache, nextId, clock, lastModeration>>
    /\ UNCHANGED <<riskVars, comfortVars, windowVars, communityVars, alertsVars, replayVars, gridVars, tilesVars, nameVars, recentVars>>

StoreNext == AddReport \/ Moderate \/ Tick \/ GetReports \/ GetCommunitySummary

---------------------------------------------------------------------------
(* GET /api/alerts: what the collaborating routes can answer.              *)

SeriesLength == 72

Hourly(time, temp, app_temp, wind_spd, wind_dir, precip, uv, wave_h, wave_p, wave_dir, sst) ==
    [time |-> time, temp |-> temp, app_temp |-> app_temp, wind_spd |-> wind_spd,
     wind_dir |-> wind_dir, precip |-> precip, uv |-> uv, wave_h |-> wave_h,
     wave_p |-> wave_p, wave_dir |-> wave_dir, sst |-> sst]

Flat(n, v) == [i \in 1..n |-> v]

\* The default of the alerts route for a weather answer that is not ok
EmptyHourly == Hourly(<<>>, <<>>, <<>>, <<>>, <<>>, <<>>, <<>>, <<>>, <<>>, <<>>, <<>>)

\* The mock series of the weather route for a provider that failed: 72
\* hourly points from the instant of the call on
MockHourly(at) ==
    Hourly([i \in 1..SeriesLength |-> at + 2 * (i - 1)],
           Flat(SeriesLength, 70), Flat(SeriesLength, 68), Flat(SeriesLength, 5),
           Flat(SeriesLength, 270), Flat(SeriesLength, 0), Flat(SeriesLength, 3),
           Flat(SeriesLength, 6), Flat(SeriesLength, 8), Flat(SeriesLength, 270),
           Flat(SeriesLength, 65))

\* A merged forecast of n gap-free hourly points from instant 0 on
ForecastHourly(n) ==
    Hourly([i \in 1..n |-> 2 * (i - 1)],
           [i \in 1..n |-> 62 + (i % 12)],
           [i \in 1..n |-> 60 + (i % 12)],
           [i \in 1..n |-> 5 + (i % 10)],
           [i \in 1..n |-> IF i % 2 = 0 THEN 270 ELSE 90],
           [i \in 1..n |-> IF i % 8 = 3 THEN 4 ELSE 0],
           [i \in 1..n |-> (i % 24) \div 2],
           [i \in 1..n |-> 6 + (i % 12)],
           Flat(n, 8), Flat(n, 270), Flat(n, 65))

\* hourly.field || []: a variable the provider left out is an empty array
FieldOrEmpty(h, k) == IF k \in DOMAIN h THEN h[k] ELSE <<>>

\* The weather route's merge of the two provider answers, variable by variable
MergeHourly(w, m) ==
    Hourly(FieldOrEmpty(w, "time"), FieldOrEmpty(w, "temperature_2m"),
           FieldOrEmpty(w, "apparent_temperature"), FieldOrEmpty(w, "wind_speed_10m"),
           FieldOrEmpty(w, "wind_direction_10m"), FieldOrEmpty(w, "precipitation"),
           FieldOrEmpty(w, "uv_index"), FieldOrEmpty(m, "wave_height"),
           FieldOrEmpty(m, "wave_period"), FieldOrEmpty(m, "wave_direction"),
           FieldOrEmpty(m, "ocean_current_velocity"))

\* A short answer with unordered, repeated timestamps and value arrays that
\* are shorter than the time array; the marine answer has wave heights only
RaggedHourly ==
    MergeHourly([time |-> <<4, 0, 4, 2>>, temperature_2m |-> <<75, 0>>,
                 apparent_temperature |-> <<79>>, wind_speed_10m |-> <<13, 14>>,
                 wind_direction_10m |-> <<180, 200>>, precipitation |-> <<10, 6, 9>>,
                 uv_index |-> <<8>>],
                [wave_height |-> <<15, 16, 3>>])

\* What the weather route merges from a provider that answered
ProviderBodies ==
    {ForecastHourly(24), ForecastHourly(25), ForecastHourly(SeriesLength + 3),
     RaggedHourly, EmptyHourly}

\* faulty variant: the catch of the weather route answers with empty arrays
envRoute_emptyOnError(providerOutcome, merged, at) ==
    IF providerOutcome = "ok" THEN merged ELSE EmptyHourly

\* GET /api/sd/env: the merged series, or the mock series from the catch when
\* a provider call is rejected, is not ok, or has an unreadable body
envRoute(providerOutcome, merged, at) ==
    IF providerOutcome = "ok" THEN merged ELSE MockHourly(at)

EnvBodies(at) ==
    {envRoute(po, merged, at) : po \in {"ok", "rejected"}, merged \in ProviderBodies}

StatusEntry(name, status, reason) == [name |-> name, status |-> status, reason |-> reason]

\* Answers of the status route: its empty fallback, and scraped lists, one
\* with a name that has two spaces in a row
EmptyStatus == [beaches |-> <<>>, last_updated |-> None]

StatusBodies(at) ==
    {EmptyStatus,
     [beaches |->
        <<StatusEntry(<<"I", "m", "p", "e", "r", "i", "a", "l", " ", "B", "e", "a", "c", "h">>,
                      "closure",
                      <<"S", "e", "w", "a", "g", "e", " ", "s", "p", "i", "l", "l">>),
          StatusEntry(<<"L", "a", " ", "J", "o", "l", "l", "a", " ", "S", "h", "o", "r", "e", "s">>,
                      "advisory", <<>>)>>,
      last_updated |-> Some(at)],
     [beaches |->
        <<StatusEntry(<<"I", "m", "p", "e", "r", "i", "a", "l", " ", "B", "e", "a", "c", "h">>,
                      "open", <<>>),
          StatusEntry(<<"L", "a", " ", "J", "o", "l", "l", "a", " ", " ", "S", "h", "o", "r", "e",
                        "s", " ", "N", "o", "r", "t", "h">>,
                      "closure", <<>>)>>,
      last_updated |-> Some(at)]}

Tide(time, type) == [time |-> time, type |-> type]

\* The default of the alerts route for a tide answer that is not ok
EmptyOcean == [water_temp_now |-> None, next_high_low |-> <<>>]

OceanBodies ==
    {EmptyOcean,
     [water_temp_now |-> Some(65), next_high_low |-> <<Tide(6, "H"), Tide(18, "L")>>],
     [water_temp_now |-> Some(0),  next_high_low |-> <<Tide(2, "L"), Tide(14, "H")>>]}

CommunityBodies ==
    {NeutralSummary,
     summarizeCommunityForBeach(0, 2, DefaultRadiusMeters,
         <<Report(1, "odor", 0, 6, 1, TRUE, TRUE)>>),
     summarizeCommunityForBeach(0, 2, DefaultRadiusMeters,
         <<Report(1, "odor", 0, 6, 1, TRUE, TRUE), Report(2, "debris", 0, 6, 2, TRUE, TRUE)>>)}

\* How a fetch and the read of its body can end
FetchOutcomes == {"ok", "http_error", "bad_json", "rejected"}

Throws(o) == o \in {"bad_json", "rejected"}

---------------------------------------------------------------------------
(* GET /api/alerts: the composed body.                                     *)

Horizons == {0, 24, 48, 72}

\* new Date(t).getHours(), with instant 0 at a local midnight
getHours(t) == (t \div 2) % 24

\* toLocaleTimeString: the time of day of an instant; the date is dropped
toLocaleTimeString(t) == t % 48

WhyEntry(kind, value, text) == [kind |-> kind, value |-> value, text |-> text]

OfficialClosure == <<"O", "f", "f", "i", "c", "i", "a", "l", " ", "c", "l", "o", "s", "u", "r", "e">>
WaterQualityAdvisory ==
    <<"W", "a", "t", "e", "r", " ", "q", "u", "a", "l", "i", "t", "y", " ",
      "a", "d", "v", "i", "s", "o", "r", "y">>

\* countyStatus.reason || dflt
ReasonOr(countyStatus, dflt) ==
    IF countyStatus[1].reason # <<>> THEN countyStatus[1].reason ELSE dflt

\* let nowIndex = 0; the scan runs when the series is not empty
NowIndex(hourly, at) ==
    IF Len(hourly.time) > 0 THEN ClosestIndex(hourly.time, at) ELSE 0

\* hourly.precip.slice(0, 72).reduce((sum, p) => sum + (p || 0), 0)
RainFirst72h(precip) ==
    SumPrecip(precip, 0, (IF Len(precip) < 72 THEN Len(precip) ELSE 72) - 1)

safetyWhyOf(countyStatus, communityData, hourly, nowIndex) ==
    LET windSpeed  == OrDefault(hourly.wind_spd, nowIndex, 0)
        windDir    == OrDefault(hourly.wind_dir, nowIndex, 0)
        waveHeight == OrDefault(hourly.wave_h, nowIndex, 0)
        uvIndex    == OrDefault(hourly.uv, nowIndex, 0)
        rain72h    == RainFirst72h(hourly.precip)
    IN  (IF StatusOf(countyStatus) = "closure"
           THEN <<WhyEntry("Beach closed", 0, ReasonOr(countyStatus, OfficialClosure))>>
         ELSE IF StatusOf(countyStatus) = "advisory"
           THEN <<WhyEntry("Advisory", 0, ReasonOr(countyStatus, WaterQualityAdvisory))>>
         ELSE <<>>)
        \o (IF communityData.level # "none"
              THEN <<WhyEntry("recent_crowd_reports", 0, <<>>)>> ELSE <<>>)
        \o (IF Len(hourly.time) > 0
              THEN (IF rain72h >= 15
                      THEN <<WhyEntry("Recent rain", rain72h, <<>>)>> ELSE <<>>)
                   \o (IF windSpeed > 12 /\ isOnshore(windDir)
                         THEN <<WhyEntry("Strong onshore wind", windSpeed, <<>>)>> ELSE <<>>)
                   \o (IF waveHeight >= 15
                         THEN <<WhyEntry("High waves", metersToFeet(waveHeight), <<>>)>>
                         ELSE <<>>)
                   \o (IF uvIndex >= 7
                         THEN <<WhyEntry("High UV", uvIndex, <<>>)>> ELSE <<>>)
              ELSE <<>>)

\* The comfort scores of the coming daylight hours among the first 12 points
RECURSIVE hourlyScoresOf(_, _, _, _)
hourlyScoresOf(hourly, at, oceanData, i) ==
    IF i >= (IF Len(hourly.time) < 12 THEN Len(hourly.time) ELSE 12) THEN <<>>
    ELSE LET hourTime   == hourly.time[i + 1]
             hour       == getHours(hourTime)
             hourOffset == (hourTime - at + 1) \div 2
         IN  (IF hourTime > at /\ hour >= 6 /\ hour <= 20
                THEN <<[time  |-> hourTime,
                        score |-> getComfortAtHour(hourly, at, hourOffset, oceanData)]>>
                ELSE <<>>)
             \o hourlyScoresOf(hourly, at, oceanData, i + 1)

bestWindowFormattedOf(hourly, at, oceanData) ==
    LET bw == findBestWindow(hourlyScoresOf(hourly, at, oceanData, 0), 3)
    IN  IF bw = None THEN None
        ELSE Some([start |-> toLocaleTimeString(bw[1].start),
                   end   |-> toLocaleTimeString(bw[1].end)])

comfortWhyOf(hourly, nowIndex, oceanData) ==
    LET uvIndex   == OrDefault(hourly.uv, nowIndex, 0)
        windSpeed == OrDefault(hourly.wind_spd, nowIndex, 0)
        windDir   == OrDefault(hourly.wind_dir, nowIndex, 0)
    IN  IF Len(hourly.time) = 0 THEN <<>>
        ELSE (IF uvIndex >= 8 THEN <<WhyEntry("UV very high", uvIndex, <<>>)>>
              ELSE IF uvIndex >= 7 THEN <<WhyEntry("UV high", uvIndex, <<>>)>>
              ELSE <<>>)
             \o (IF windSpeed > 12 /\ isOnshore(windDir)
                   THEN <<WhyEntry("Breeze onshore", windSpeed, <<>>)>>
                 ELSE IF windSpeed > 8 THEN <<WhyEntry("Breeze", windSpeed, <<>>)>>
                 ELSE <<>>)
             \o (IF oceanData.water_temp_now # None
                   THEN <<WhyEntry("Water", oceanData.water_temp_now[1], <<>>)>>
                   ELSE <<>>)

tideStateOf(oceanData, at) ==
    IF Len(oceanData.next_high_low) >= 2 /\ oceanData.next_high_low[1].time > at
      THEN (IF oceanData.next_high_low[1].type = "H" THEN "flood" ELSE "ebb")
      ELSE "null"

\* arr && arr[i] ? arr[i] : null
OrNull(arr, i) == IF i + 1 <= Len(arr) /\ arr[i + 1] # 0 THEN Some(arr[i + 1]) ELSE None

\* The AlertsResponse composed from the resolved beach and the four answers
AlertsResult(b, at, statusData, hourly, oceanData, communityData) ==
    LET countyStatus   == CountyStatusOf(statusData.beaches, b)
        riskNow        == getRiskAtHour(hourly, at, 0, communityData.level)
        nowIndex       == NowIndex(hourly, at)
        officialReason == officialReasonOf(countyStatus)
    IN  [beach     |-> b,
         as_of     |-> at,
         safety    |-> [status   |-> riskLevelToSafety(riskNow, StatusOf(countyStatus)),
                        risk_now |-> riskNow,
                        risk_24h |-> getRiskAtHour(hourly, at, 24, communityData.level),
                        risk_48h |-> getRiskAtHour(hourly, at, 48, communityData.level),
                        risk_72h |-> getRiskAtHour(hourly, at, 72, communityData.level),
                        official |-> [state          |-> officialStateOf(countyStatus),
                                      last_sample_at |-> statusData.last_updated],
                        why      |-> safetyWhyOf(countyStatus, communityData, hourly, nowIndex)],
         comfort   |-> [score_now |-> getComfortAtHour(hourly, at, 0, oceanData),
                        score_24h |-> getComfortAtHour(hourly, at, 24, oceanData),
                        score_48h |-> getComfortAtHour(hourly, at, 48, oceanData),
                        score_72h |-> getComfortAtHour(hourly, at, 72, oceanData),
                        best_window_today |-> bestWindowFormattedOf(hourly, at, oceanData),
                        why       |-> comfortWhyOf(hourly, nowIndex, oceanData)],
         ocean     |-> [tide_state   |-> tideStateOf(oceanData, at),
                        swell        |-> [height_ft |->
                                              IF OrNull(hourly.wave_h, nowIndex) = None THEN None
                                              ELSE Some(metersToFeet(hourly.wave_h[nowIndex + 1])),
                                          period_s  |-> OrNull(hourly.wave_p, nowIndex),
                                          dir_deg   |-> OrNull(hourly.wave_dir, nowIndex)],
                        water_temp_f |-> WaterTempOf(oceanData)],
         weather   |-> [air_temp_f   |-> OrDefault(hourly.temp, nowIndex, 70),
                        feels_like_f |-> OrDefault(hourly.app_temp, nowIndex, 70),
                        wind_mph     |-> OrDefault(hourly.wind_spd, nowIndex, 0),
                        wind_dir_deg |-> OrDefault(hourly.wind_dir, nowIndex, 0),
                        uv_index     |-> OrDefault(hourly.uv, nowIndex, 0)],
         pollution |-> [official_reason |->
                            IF isSewageRelated(officialReason) THEN officialReason ELSE <<>>,
                        south_bay_flag  |->
                            isSouthBay(b) /\ isSewageRelated(officialReason)],
         community |-> communityData]

\* closestIndex as getRiskAtHour and getComfortAtHour last computed it for
\* each horizon; -1 where the series is empty and no index is computed
ResolvedIndices(hourly, at) ==
    [h \in Horizons |->
        IF Len(hourly.time) = 0 THEN -1 ELSE ClosestIndex(hourly.time, at + 2 * h)]

---------------------------------------------------------------------------
(* GET /api/alerts: the handler, one step per await.                       *)

NowValues == {0, 1, 40}

\* beach_id and lat/lng of the query; lat stands for the coordinate pair
AlertsRequests ==
    {[beach_id |-> None,    lat |-> None],
     [beach_id |-> None,    lat |-> Some(0)],
     [beach_id |-> None,    lat |-> Some(1500)],
     [beach_id |-> Some(1), lat |-> Some(0)],
     [beach_id |-> Some(9), lat |-> Some(0)]}

NoOutcome == [beaches |-> "none", status |-> "none", env |-> "none", provider |-> "none",
              ocean |-> "none", community |-> "none"]

NoFetched == [statusData |-> EmptyStatus, envData |-> [hourly |-> EmptyHourly],
              oceanData |-> EmptyOcean, communityData |-> NeutralSummary]

NoResolved == [risk |-> [h \in Horizons |-> -1], comfort |-> [h \in Horizons |-> -1]]

HttpResponse(status, error, body) == [status |-> status, error |-> error, body |-> body]

NoHttpResponse == HttpResponse(0, "", None)

AlertsIdle ==
    /\ pc = "idle"
    /\ request = [beach_id |-> None, lat |-> None]
    /\ alertsNow = 0
    /\ beach = None
    /\ outcome = NoOutcome
    /\ fetched = NoFetched
    /\ resolved = NoResolved
    /\ response = NoHttpResponse

AlertsInit ==
    /\ pc = "start"
    /\ request \in AlertsRequests
    /\ alertsNow \in NowValues
    /\ beach = None
    /\ outcome = NoOutcome
    /\ fetched = NoFetched
    /\ resolved = NoResolved
    /\ response = NoHttpResponse

\* The outer catch of the handler
ComposeFailed == HttpResponse(500, "Failed to compose alerts data", None)

\* if (!lat || !lng) return 400
CheckParams ==
    /\ pc = "start"
    /\ IF request.lat = None
         THEN /\ response' = HttpResponse(400, "Missing lat or lng parameter", None)
              /\ pc' = "done"
         ELSE /\ pc' = "beaches"
              /\ UNCHANGED response
    /\ UNCHANGED <<request, alertsNow, beach, outcome, fetched, resolved>>
    /\ UNCHANGED <<riskVars, comfortVars, windowVars, communityVars, storeVars, replayVars, gridVars, tilesVars, nameVars, recentVars>>

\* beach = find by id || null; if still null, the nearest of a non-empty registry
ResolveBeach(registry, req) ==
    LET byId == IF req.beach_id = None THEN {}
                ELSE {i \in 1..Len(registry) : registry[i].id = req.beach_id[1]}
    IN  IF byId # {} THEN Some(registry[CHOOSE i \in byId : \A j \in byId : i <= j])
        ELSE IF Len(registry) > 0 THEN NearestBeach(registry, req.lat[1])
        ELSE None

\* await fetch(/api/sd/beaches), the registry, and the resolution of the beach
FetchBeaches ==
    /\ pc = "beaches"
    /\ \E o \in FetchOutcomes :
         /\ outcome' = [outcome EXCEPT !.beaches = o]
         /\ IF Throws(o)
              THEN /\ response' = ComposeFailed
                   /\ pc' = "done"
                   /\ UNCHANGED beach
              ELSE LET registry == IF o = "ok" THEN Beaches ELSE <<>>
                       found    == ResolveBeach(registry, request)
                   IN  IF found = None
                         THEN /\ response' = HttpResponse(404, "Beach not found", None)
                              /\ pc' = "done"
                              /\ UNCHANGED beach
                         ELSE /\ beach' = found
                              /\ pc' = "sources"
                              /\ UNCHANGED response
    /\ UNCHANGED <<request, alertsNow, fetched, resolved>>
    /\ UNCHANGED <<riskVars, comfortVars, windowVars, communityVars, storeVars, replayVars, gridVars, tilesVars, nameVars, recentVars>>

\* res.ok ? await res.json() : dflt, for an outcome that does not throw
BodyOr(o, body, dflt) == IF o = "ok" THEN body ELSE dflt

\* await Promise.all of the status, weather and tide fetches, then the bodies.
\* The weather route that answers the second fetch calls its provider.
FetchSources ==
    /\ pc = "sources"
    /\ \E os \in FetchOutcomes, oe \in FetchOutcomes, oo \in FetchOutcomes,
          po \in FetchOutcomes \cup {"none"},
          s \in StatusBodies(alertsNow), merged \in ProviderBodies, oc \in OceanBodies :
         /\ os # "ok" => s = EmptyStatus
         /\ (oe = "ok") = (po # "none")
         /\ po # "ok" => merged = EmptyHourly
         /\ oo # "ok" => oc = EmptyOcean
         /\ outcome' = [outcome EXCEPT !.status = os, !.env = oe, !.provider = po,
                                       !.ocean = oo]
         /\ IF Throws(os) \/ Throws(oe) \/ Throws(oo)
              THEN /\ response' = ComposeFailed
                   /\ pc' = "done"
                   /\ UNCHANGED fetched
              ELSE /\ fetched' = [fetched EXCEPT
                                     !.statusData = BodyOr(os, s, EmptyStatus),
                                     !.envData    =
                                         [hourly |-> BodyOr(oe, envRoute(po, merged, alertsNow),
                                                            EmptyHourly)],
                                     !.oceanData  = BodyOr(oo, oc, EmptyOcean)]
                   /\ pc' = "community"
                   /\ UNCHANGED response
    /\ UNCHANGED <<request, alertsNow, beach, resolved>>
    /\ UNCHANGED <<riskVars, comfortVars, windowVars, communityVars, storeVars, replayVars, gridVars, tilesVars, nameVars, recentVars>>

\* try { fetch the community summary } catch { keep the default }, and the
\* composition that follows it without another await
FetchCommunity ==
    /\ pc = "community"
    /\ \E o \in FetchOutcomes, c \in CommunityBodies :
         /\ o # "ok" => c = NeutralSummary
         /\ outcome' = [outcome EXCEPT !.community = o]
         /\ fetched' = [fetched EXCEPT !.communityData = BodyOr(o, c, NeutralSummary)]
         /\ resolved' = [risk    |-> ResolvedIndices(fetched.envData.hourly, alertsNow),
                         comfort |-> ResolvedIndices(fetched.envData.hourly, alertsNow)]
         /\ response' = HttpResponse(200, "",
                            Some(AlertsResult(beach[1], alertsNow, fetched.statusData,
                                              fetched.envData.hourly, fetched.oceanData,
                                              BodyOr(o, c, NeutralSummary))))
    /\ pc' = "done"
    /\ UNCHANGED <<request, alertsNow, beach>>
    /\ UNCHANGED <<riskVars, comfortVars, windowVars, communityVars, storeVars, replayVars, gridVars, tilesVars, nameVars, recentVars>>

AlertsNext == CheckParams \/ FetchBeaches \/ FetchSources \/ FetchCommunity

\* The handler's fetch calls carry no signal and no timer: when the route
\* that was called never answers, the await never resumes
FetchNeverSettles ==
    /\ pc \in {"beaches", "sources", "community"}
    /\ pc' = "waiting"
    /\ UNCHANGED <<request, alertsNow, beach, outcome, fetched, resolved, response>>
    /\ UNCHANGED <<riskVars, comfortVars, windowVars, communityVars, storeVars, replayVars, gridVars, tilesVars, nameVars, recentVars>>

AlertsLiveNext == AlertsNext \/ FetchNeverSettles

---------------------------------------------------------------------------
(* Repeated alerts requests against one upstream snapshot, with the        *)
(* process-wide metrics store of lib/metrics.ts.                           *)

MaxRequests == 3

Metric(hits, errors) == [hits |-> hits, errors |-> errors]

\* What the collaborators answer: the outcome of each fetch and its body
Upstream(ob, os, sb, oe, po, merged, oo, ocb, oc, cb) ==
    [beaches |-> ob, status |-> os, statusBody |-> sb, env |-> oe, provider |-> po,
     merged |-> merged, ocean |-> oo, oceanBody |-> ocb, community |-> oc,
     communityBody |-> cb]

\* GET /api/alerts from the request to the response, for given upstream
\* answers and instant `now`
ComposeAlerts(req, up, at) ==
    IF req.lat = None THEN HttpResponse(400, "Missing lat or lng parameter", None)
    ELSE IF Throws(up.beaches) THEN ComposeFailed
    ELSE LET found == ResolveBeach(IF up.beaches = "ok" THEN Beaches ELSE <<>>, req)
         IN  IF found = None THEN HttpResponse(404, "Beach not found", None)
             ELSE IF Throws(up.status) \/ Throws(up.env) \/ Throws(up.ocean)
               THEN ComposeFailed
             ELSE HttpResponse(200, "",
                      Some(AlertsResult(found[1], at,
                               BodyOr(up.status, up.statusBody, EmptyStatus),
                               BodyOr(up.env, envRoute(up.provider, up.merged, at), EmptyHourly),
                               BodyOr(up.ocean, up.oceanBody, EmptyOcean),
                               BodyOr(up.community, up.communityBody, NeutralSummary))))

\* faulty variant: once an error was counted the handler stops composing
HandleAlerts_readsMetrics(req, up, at, m) ==
    IF m.errors > 0 THEN HttpResponse(503, "Degraded", None)
    ELSE ComposeAlerts(req, up, at)

\* The handler in a process whose metrics store holds m: the store is written
\* by end() and trackError() and not read
HandleAlerts(req, up, at, m) == ComposeAlerts(req, up, at)

\* as_of: new Date().toISOString() is read when the result is built
StampAsOf(resp, readAt) ==
    IF resp.body = None THEN resp
    ELSE [resp EXCEPT !.body = Some([resp.body[1] EXCEPT !.as_of = readAt])]

\* end() counts a hit for a composed or failed request, trackError an error
\* for a failed one; the 400 and 404 returns leave the store alone
MetricsAfter(m, resp) ==
    IF resp.status = 200 THEN Metric(m.hits + 1, m.errors)
    ELSE IF resp.status = 500 THEN Metric(m.hits + 1, m.errors + 1)
    ELSE m

ReplayWorlds ==
    {[request |-> req, now |-> at,
      upstream |-> Upstream(ob, os, IF os = "ok" THEN sb ELSE EmptyStatus,
                            "ok", po, IF po = "ok" THEN ForecastHourly(25) ELSE EmptyHourly,
                            "ok", CHOOSE o \in OceanBodies : o.water_temp_now = Some(65),
                            "ok", cb)] :
        req \in AlertsRequests, at \in {0, 1},
        ob \in {"ok", "http_error"}, os \in {"ok", "rejected"},
        sb \in StatusBodies(0), po \in {"ok", "rejected"}, cb \in CommunityBodies}

\* Another request, with other upstream answers
OtherWorld ==
    [request |-> [beach_id |-> None, lat |-> Some(1500)], now |-> 48,
     upstream |-> Upstream("ok", "ok", EmptyStatus, "bad_json", "none", EmptyHourly,
                           "http_error", EmptyOcean, "rejected", NeutralSummary)]

ReplayIdle ==
    /\ metrics = Metric(0, 0)
    /\ world = OtherWorld
    /\ wallClock = 0
    /\ answers = <<>>

ReplayInit ==
    /\ metrics = Metric(0, 0)
    /\ world \in ReplayWorlds
    /\ wallClock = 0
    /\ answers = <<>>

\* The probed request is served once more against the same snapshot
ServeProbe ==
    /\ wallClock < MaxRequests
    /\ LET resp == HandleAlerts(world.request, world.upstream, world.now, metrics)
       IN  /\ answers' = Append(answers, StampAsOf(resp, world.now + wallClock))
           /\ metrics' = MetricsAfter(metrics, resp)
    /\ wallClock' = wallClock + 1
    /\ UNCHANGED world
    /\ UNCHANGED <<riskVars, comfortVars, windowVars, communityVars, storeVars, alertsVars, gridVars, tilesVars, nameVars, recentVars>>

\* Another request is served in between; it fails and is counted
ServeOther ==
    /\ wallClock < MaxRequests
    /\ metrics' = MetricsAfter(metrics,
                      HandleAlerts(OtherWorld.request, OtherWorld.upstream, OtherWorld.now,
                                   metrics))
    /\ wallClock' = wallClock + 1
    /\ UNCHANGED <<world, answers>>
    /\ UNCHANGED <<riskVars, comfortVars, windowVars, communityVars, storeVars, alertsVars, gridVars, tilesVars, nameVars, recentVars>>

ReplayNext == ServeProbe \/ ServeOther

---------------------------------------------------------------------------
(* The Forecast Grid Interpreter: summarizeTilesNearBeach and safetyFrom.  *)
(* Uncertainty is in tenths, sea temperature in whole degrees Celsius that *)
(* are multiples of 5 so that the conversion to Fahrenheit is exact.       *)

MaxCells == 2

Summary(safety, comfort, riskClass, why, uncertainty) ==
    [safety |-> safety, comfort |-> comfort, riskClass |-> riskClass, why |-> why,
     uncertainty |-> uncertainty]

safetyFrom(riskClass, status) ==
    IF status = "closed" THEN "nogo"
    ELSE IF riskClass = "high" THEN "nogo"
    ELSE IF riskClass = "medium" THEN "slow"
    ELSE "go"

\* envNow?.field ?? dflt: only a missing bundle or field gives the default
FieldOr(env, field, dflt) ==
    IF env = None \/ env[1][field] = None THEN dflt ELSE env[1][field][1]

\* envNow?.sst != null ? (envNow.sst * 9 / 5) + 32 : null
waterTempF(env) ==
    IF env = None \/ env[1]["sst"] = None THEN None
    ELSE Some((env[1]["sst"][1] * 9) \div 5 + 32)

TileComfortFactors(env) ==
    [airTemp    |-> FieldOr(env, "airTemp", 70),
     feelsLike  |-> FieldOr(env, "feelsLike", FieldOr(env, "airTemp", 70)),
     waterTemp  |-> waterTempF(env),
     windSpeed  |-> FieldOr(env, "wind", 8),
     windDir    |-> 270,
     uvIndex    |-> FieldOr(env, "uv", 5),
     waveHeight |-> FieldOr(env, "waves", 2000000)]

\* The summary of a grid that is not empty: the first cell is the
\* representative cell
SummaryOfFirstCell(cs, env, status) ==
    Summary(safetyFrom(cs[1].riskClass, status),
            calculateComfortScore(TileComfortFactors(env)),
            cs[1].riskClass, <<>>, cs[1].uncertainty)

\* faulty variant: an empty grid is reported as a clear forecast
summarizeTilesNearBeach_emptyIsClear(cs, b, env, status) ==
    IF Len(cs) = 0 THEN Summary("go", 50, "low", <<>>, 0)
    ELSE SummaryOfFirstCell(cs, env, status)

summarizeTilesNearBeach(cs, b, env, status) ==
    IF Len(cs) = 0 THEN Summary("slow", 50, "medium", <<"noData">>, 10)
    ELSE SummaryOfFirstCell(cs, env, status)

Cell(lat, riskClass, uncertainty) ==
    [lat |-> lat, riskClass |-> riskClass, uncertainty |-> uncertainty]

RiskClasses == {"low", "medium", "high"}

CellValues == {Cell(0, rc, 2) : rc \in RiskClasses} \cup {Cell(2000, rc, 8) : rc \in RiskClasses}

CellGrids == UNION {[1..n -> CellValues] : n \in 0..MaxCells}

EnvNowValues ==
    {None} \cup
    {Some([wind |-> w, sst |-> t, uv |-> u, waves |-> wv, airTemp |-> a, feelsLike |-> fl]) :
        w \in {None, Some(14)}, t \in {None, Some(20)}, u \in {None, Some(8)},
        wv \in {None, Some(3500000)}, a \in {None, Some(75)}, fl \in {None, Some(62)}}

OfficialValues == {Undefined, "open", "advisory", "closed"}

GridBeach == Beaches[2]

NoSummary == Summary("none", -1, "none", <<>>, -1)

GridIdle ==
    /\ cells = <<>>
    /\ envNow = None
    /\ official = Undefined
    /\ tileSummary = NoSummary
    /\ gridOp = "idle"

GridInit ==
    /\ cells \in CellGrids
    /\ envNow \in EnvNowValues
    /\ official \in OfficialValues
    /\ tileSummary = NoSummary
    /\ gridOp = "input"

SummarizeTiles ==
    /\ gridOp = "input"
    /\ tileSummary' = summarizeTilesNearBeach(cells, GridBeach, envNow, official)
    /\ gridOp' = "summarized"
    /\ UNCHANGED <<cells, envNow, official>>
    /\ UNCHANGED <<riskVars, comfortVars, windowVars, communityVars, storeVars, alertsVars,
                   replayVars, tilesVars, nameVars, recentVars>>

GridNext == SummarizeTiles

---------------------------------------------------------------------------
(* GET /api/tiles: the proxy to the forecast-grid inference provider.      *)
(* Query values are texts; numbers are in tenths.                          *)

\* Number(v) for the texts the requests carry: None is NaN
NumberOf(v) ==
    CASE v = "3" -> Some(30)
      [] v = "0.5" -> Some(5)
      [] v = "0" -> Some(0)
      [] v = "32.6" -> Some(326)
      [] OTHER -> None

\* q.get(k): None when the parameter is absent
QueryGet(q, k) == IF k \in DOMAIN q THEN Some(q[k]) ELSE None

num(q, k, dflt) ==
    IF QueryGet(q, k) = None \/ QueryGet(q, k) = Some("") THEN dflt
    ELSE IF NumberOf(q[k]) # None THEN NumberOf(q[k])[1] ELSE dflt

\* q.get(k) ?? dflt
GetOr(q, k, dflt) == IF QueryGet(q, k) = None THEN dflt ELSE q[k]

Forwarded(q) ==
    [when      |-> GetOr(q, "when", "now"),
     geomId    |-> GetOr(q, "geomId", "IB"),
     rainfall  |-> num(q, "rainfall", 0),
     wind      |-> num(q, "wind", 10),
     tides     |-> num(q, "tides", 0),
     waves     |-> num(q, "waves", 5),
     sst       |-> num(q, "sst", 190),
     community |-> num(q, "community", 2),
     lat       |-> QueryGet(q, "lat"),
     lng       |-> QueryGet(q, "lng")]

TilesError(prefix, status) == [prefix |-> prefix, status |-> status]

TilesFailure(err) == [status |-> 500, body |-> [success |-> FALSE, error |-> err]]

\* py?.meta?.onnx ?? false
OnnxOf(body) == IF body.meta = None THEN FALSE ELSE body.meta[1].onnx

TilesSuccess(q, body) ==
    [status |-> 200,
     body   |-> [success   |-> TRUE,
                 data      |-> body,
                 forwarded |-> Forwarded(q),
                 meta      |-> [onnx |-> OnnxOf(body), source |-> "tiles-route"]]]

tilesGET(q, p) ==
    IF p.outcome = "http_error" THEN TilesFailure(TilesError("py", Some(p.status)))
    ELSE IF Throws(p.outcome) THEN TilesFailure(TilesError("py fetch failed", None))
    ELSE TilesSuccess(q, p.body)

Provider(o, status, body) == [outcome |-> o, status |-> status, body |-> body]

\* What the provider returns when it answers: { cells: [...], meta: {...} }
PredictBodies ==
    {[cells |-> <<>>, meta |-> Some([onnx |-> TRUE])],
     [cells |-> <<Cell(0, "low", 2)>>, meta |-> Some([onnx |-> FALSE])],
     [cells |-> <<Cell(0, "high", 8), Cell(2000, "low", 2)>>, meta |-> None]}

ProviderOutcomes ==
    {Provider("ok", 200, b) : b \in PredictBodies}
        \cup {Provider("http_error", st, [cells |-> <<>>, meta |-> None]) : st \in {500, 503}}
        \cup {Provider(o, 0, [cells |-> <<>>, meta |-> None]) : o \in {"bad_json", "rejected"}}

WhenTexts == {"now", "t24", "invalid", ""}

TilesQueries ==
    UNION {[ks -> WhenTexts \cup {"3", "0.5", "32.6"}] : ks \in SUBSET {"when", "rainfall", "lat"}}

NoTilesResponse == [status |-> 0, body |-> None]

TilesIdle ==
    /\ tilesQuery = <<>>
    /\ py = Provider("none", 0, None)
    /\ tilesResponse = NoTilesResponse
    /\ tilesPc = "idle"

TilesInit ==
    /\ tilesQuery \in TilesQueries
    /\ py \in ProviderOutcomes
    /\ tilesResponse = NoTilesResponse
    /\ tilesPc = "request"

TilesGet ==
    /\ tilesPc = "request"
    /\ tilesResponse' = tilesGET(tilesQuery, py)
    /\ tilesPc' = "done"
    /\ UNCHANGED <<tilesQuery, py>>
    /\ UNCHANGED <<riskVars, comfortVars, windowVars, communityVars, storeVars, alertsVars,
                   replayVars, gridVars, nameVars, recentVars>>

TilesNext == TilesGet

---------------------------------------------------------------------------
(* lib/normalize.ts on its own: a name is normalized, and the result is    *)
(* normalized again.  A name is put together from up to MaxTokens tokens.  *)

MaxTokens == 3

NameTokens ==
    {<<"B", "e", "a", "c", "h">>, <<"b", "e", "a", "c", "h">>,
     <<"S", "h", "o", "r", "e", "s">>, <<" ">>, <<" ", " ">>, <<"-">>, <<".">>}

RECURSIVE Concat(_)
Concat(parts) == IF parts = <<>> THEN <<>> ELSE Head(parts) \o Concat(Tail(parts))

NameTexts == {Concat(parts) : parts \in UNION {[1..n -> NameTokens] : n \in 0..MaxTokens}}

NameIdle ==
    /\ nameText = <<>>
    /\ normalized = <<>>
    /\ renormalized = <<>>
    /\ nameOp = "idle"

NameInit ==
    /\ nameText \in NameTexts
    /\ normalized = <<>>
    /\ renormalized = <<>>
    /\ nameOp = "input"

NormalizeName ==
    /\ nameOp = "input"
    /\ normalized' = normalizeBeachName(nameText)
    /\ nameOp' = "once"
    /\ UNCHANGED <<nameText, renormalized>>
    /\ UNCHANGED <<riskVars, comfortVars, windowVars, communityVars, storeVars, alertsVars,
                   replayVars, gridVars, tilesVars, recentVars>>

NormalizeAgain ==
    /\ nameOp = "once"
    /\ renormalized' = normalizeBeachName(normalized)
    /\ nameOp' = "twice"
    /\ UNCHANGED <<nameText, normalized>>
    /\ UNCHANGED <<riskVars, comfortVars, windowVars, communityVars, storeVars, alertsVars,
                   replayVars, gridVars, tilesVars, recentVars>>

NameNext == NormalizeName \/ NormalizeAgain

---------------------------------------------------------------------------
(* lib/recent-beaches.ts in the browser: the list kept in localStorage.    *)
(* A call views a beach that was never listed, the first or the last       *)
(* beach of the list, or clears the list.                                  *)

MAX_RECENT_BEACHES == 10

MaxViews == 12

RecentBeach(id, lastViewed) == [id |-> id, lastViewed |-> lastViewed]

\* recent.slice(0, n)
Slice(list, n) == SubSeq(list, 1, IF Len(list) < n THEN Len(list) ELSE n)

\* stored ? JSON.parse(stored) : []
ParseStored(stored) == IF stored = None THEN <<>> ELSE stored[1]

\* faulty variant: the entry of the beach is not removed before it is added
addRecentBeach_keepsOld(stored, id, at) ==
    Some(Slice(<<RecentBeach(id, at)>> \o ParseStored(stored), MAX_RECENT_BEACHES))

\* addRecentBeach: the value written under the key
addRecentBeach(stored, id, at) ==
    Some(Slice(<<RecentBeach(id, at)>>
                 \o SelectSeq(ParseStored(stored), LAMBDA b : b.id # id),
               MAX_RECENT_BEACHES))

getRecentBeaches(stored) == ParseStored(stored)

\* The ids a call is made with: one above every listed id, and those of the
\* first and the last entry
ViewedIds(list) ==
    IF list = <<>> THEN {1}
    ELSE {list[1].id, list[Len(list)].id,
          1 + CHOOSE m \in {list[i].id : i \in 1..Len(list)} :
                  \A i \in 1..Len(list) : list[i].id <= m}

NoView == [op |-> "none", id |-> 0, listed |-> FALSE, length |-> 0]

RecentIdle ==
    /\ recentStored = None
    /\ viewClock = 0
    /\ lastView = NoView

RecentInit ==
    /\ recentStored = None
    /\ viewClock = 1
    /\ lastView = NoView

AddRecentBeach ==
    /\ viewClock \in 1..MaxViews
    /\ \E id \in ViewedIds(getRecentBeaches(recentStored)) :
         /\ recentStored' = addRecentBeach(recentStored, id, viewClock)
         /\ lastView' = [op |-> "add", id |-> id,
                         listed |-> \E i \in 1..Len(getRecentBeaches(recentStored)) :
                                       getRecentBeaches(recentStored)[i].id = id,
                         length |-> Len(getRecentBeaches(recentStored))]
    /\ viewClock' = viewClock + 1
    /\ UNCHANGED <<riskVars, comfortVars, windowVars, communityVars, storeVars, alertsVars,
                   replayVars, gridVars, tilesVars, nameVars>>

ClearRecentBeaches ==
    /\ viewClock \in 1..MaxViews
    /\ recentStored' = None
    /\ lastView' = [op |-> "clear", id |-> 0, listed |-> FALSE,
                    length |-> Len(getRecentBeaches(recentStored))]
    /\ viewClock' = viewClock + 1
    /\ UNCHANGED <<riskVars, comfortVars, windowVars, communityVars, storeVars, alertsVars,
                   replayVars, gridVars, tilesVars, nameVars>>

RecentNext == AddRecentBeach \/ ClearRecentBeaches

---------------------------------------------------------------------------
(* Specifications, one per component *)

InitRisk == RiskInit /\ ComfortIdle /\ WindowIdle /\ CommunityIdle /\ StoreIdle /\ AlertsIdle /\ ReplayIdle /\ GridIdle /\ TilesIdle /\ NameIdle /\ RecentIdle
SpecRisk == InitRisk /\ [][RiskNext]_vars

InitComfort == ComfortInit /\ RiskIdle /\ WindowIdle /\ CommunityIdle /\ StoreIdle /\ AlertsIdle /\ ReplayIdle /\ GridIdle /\ TilesIdle /\ NameIdle /\ RecentIdle
SpecComfort == InitComfort /\ [][ComfortNext]_vars

InitWindow == WindowInit /\ RiskIdle /\ ComfortIdle /\ CommunityIdle /\ StoreIdle /\ AlertsIdle /\ ReplayIdle /\ GridIdle /\ TilesIdle /\ NameIdle /\ RecentIdle
SpecWindow == InitWindow /\ [][WindowNext]_vars

InitCommunity == CommunityInit /\ RiskIdle /\ ComfortIdle /\ WindowIdle /\ StoreIdle /\ AlertsIdle /\ ReplayIdle /\ GridIdle /\ TilesIdle /\ NameIdle /\ RecentIdle
SpecCommunity == InitCommunity /\ [][CommunityNext]_vars

InitStore == StoreInit /\ RiskIdle /\ ComfortIdle /\ WindowIdle /\ CommunityIdle /\ AlertsIdle /\ ReplayIdle /\ GridIdle /\ TilesIdle /\ NameIdle /\ RecentIdle
SpecStore == InitStore /\ [][StoreNext]_vars

InitAlerts == RiskIdle /\ ComfortIdle /\ WindowIdle /\ CommunityIdle /\ StoreIdle /\ AlertsInit /\ ReplayIdle /\ GridIdle /\ TilesIdle /\ NameIdle /\ RecentIdle
SpecAlerts == InitAlerts /\ [][AlertsNext]_vars

\* The handler moves on from an await that resumed. Every step of AlertsNext
\* is such a step, one is possible exactly where a step of AlertsNext is, and
\* a step of FetchNeverSettles is not one.
HandlerResumes ==
    /\ pc \in {"start", "beaches", "sources", "community"}
    /\ pc' \in {"beaches", "sources", "community", "done"}

\* The handler with upstream routes that may never answer; a continuation
\* that can run is run
SpecAlertsLive == InitAlerts /\ [][AlertsLiveNext]_vars /\ WF_pc(HandlerResumes)

InitReplay == RiskIdle /\ ComfortIdle /\ WindowIdle /\ CommunityIdle /\ StoreIdle /\ AlertsIdle /\ ReplayInit /\ GridIdle /\ TilesIdle /\ NameIdle /\ RecentIdle
SpecReplay == InitReplay /\ [][ReplayNext]_vars

InitGrid == RiskIdle /\ ComfortIdle /\ WindowIdle /\ CommunityIdle /\ StoreIdle /\ AlertsIdle /\ ReplayIdle /\ GridInit /\ TilesIdle /\ NameIdle /\ RecentIdle
SpecGrid == InitGrid /\ [][GridNext]_vars

InitTiles == RiskIdle /\ ComfortIdle /\ WindowIdle /\ CommunityIdle /\ StoreIdle /\ AlertsIdle /\ ReplayIdle /\ GridIdle /\ TilesInit /\ NameIdle /\ RecentIdle
SpecTiles == InitTiles /\ [][TilesNext]_vars

InitName == RiskIdle /\ ComfortIdle /\ WindowIdle /\ CommunityIdle /\ StoreIdle /\ AlertsIdle /\ ReplayIdle /\ GridIdle /\ TilesIdle /\ NameInit /\ RecentIdle
SpecName == InitName /\ [][NameNext]_vars

InitRecent == RiskIdle /\ ComfortIdle /\ WindowIdle /\ CommunityIdle /\ StoreIdle /\ AlertsIdle /\ ReplayIdle /\ GridIdle /\ TilesIdle /\ NameIdle /\ RecentInit
SpecRecent == InitRecent /\ [][RecentNext]_vars

---------------------------------------------------------------------------
(* Properties of the Risk Classifier (SpecRisk) *)

riskDone == riskOp \in {"classified", "increased"}

SafetyRank(s) == CASE s = "Go" -> 0 [] s = "Slow" -> 1 [] s = "No-Go" -> 2
LevelRank(l) == CASE l = "Low" -> 0 [] l = "Moderate" -> 1 [] l = "High" -> 2

\* C1: for every computed risk level, a closure status gives the verdict
\* No-Go and an advisory status never gives the verdict Go.
C1_StatusDominance ==
    riskDone =>
        /\ officialStatus = "closure" => risk.safety = "No-Go"
        /\ officialStatus = "advisory" => risk.safety # "Go"

C1_Witness ==
    /\ riskOp = "classified"
    /\ officialStatus = "closure"
    /\ risk.level = "Low"
    /\ risk.safety = "No-Go"

\* C2 (as claimed): for every risk level and every regulator status the
\* verdict is at least as conservative as the verdict the same level gets
\* with no regulator status.
C2_NeverLessConservative ==
    riskDone =>
        SafetyRank(risk.safety)
            >= SafetyRank(riskLevelToSafety(risk.level, Undefined))

\* C3: the points are the additive cascade of the five factors, the level is
\* High from 3 points, Moderate at 2, Low below; heavy rain with strong
\* onshore wind, high waves and high UV at once is High.
C3_Cascade ==
    riskDone =>
        LET rainPts  == IF factors.rain72h >= 25 THEN 2
                        ELSE IF factors.rain72h >= 15 THEN 1 ELSE 0
            onshore  == factors.windDir \in (210..330) \cup (180..360)
            windPts  == IF onshore /\ factors.windSpeed > 12 THEN 1 ELSE 0
            wavePts  == IF factors.waveHeight >= 15 THEN 1 ELSE 0
            uvPts    == IF factors.uvIndex >= 7 THEN 1 ELSE 0
            crowdPts == IF factors.crowdReports \in {Some(n) : n \in 2..10}
                        THEN 1 ELSE 0
            total    == rainPts + windPts + wavePts + uvPts + crowdPts
        IN  /\ risk.points = total
            /\ total >= 3 => risk.level = "High"
            /\ total = 2  => risk.level = "Moderate"
            /\ total < 2  => risk.level = "Low"
            /\ (rainPts = 2 /\ windPts = 1 /\ wavePts = 1 /\ uvPts = 1)
                   => risk.level = "High"

C3_Witness ==
    /\ riskOp = "classified"
    /\ factors.rain72h >= 25
    /\ factors.windDir = 180 /\ factors.windSpeed = 13
    /\ factors.waveHeight = 15
    /\ factors.uvIndex = 7
    /\ factors.crowdReports = None
    /\ risk.points = 5
    /\ risk.level = "High"

\* C4: when one factor is increased and the others are held fixed the level
\* never goes down.
C4_Monotonic ==
    riskOp = "increased" => LevelRank(risk.level) >= LevelRank(prevRisk.level)

C4_Witness ==
    /\ riskOp = "increased"
    /\ prevRisk.level = "Low"
    /\ risk.level = "High"

---------------------------------------------------------------------------
(* Properties of the Comfort Scorer (SpecComfort) *)

\* C5: the comfort score is an integer between 0 and 100 for every input,
\* a null water temperature included.
C5_ScoreRange ==
    comfortOp = "scored" => comfortScore \in 0..100

C5_Witness ==
    /\ comfortOp = "scored"
    /\ comfortFactors.waterTemp = None
    /\ comfortFactors.feelsLike = 72
    /\ comfortFactors.windSpeed = 7
    /\ comfortFactors.uvIndex = 4
    /\ comfortFactors.waveHeight = 2000000
    /\ comfortScore = 90

\* The score 100 is reached: the upper end of the range is tight.
C5_WitnessTop ==
    /\ comfortOp = "scored"
    /\ comfortScore = 100

---------------------------------------------------------------------------
(* Properties of findBestWindow (SpecWindow) *)

WindowSum(i) == SumScores(hourlyScores, i + 1, i + windowHours)
WindowStarts == 0..(Len(hourlyScores) - windowHours)

\* C8: null when there are fewer entries than the width; otherwise the span
\* with the highest mean, the earliest one among equals; the span starting at
\* index 1 for the scores 40, 60, 90, 85, 30 and width 3.
C8_BestWindow ==
    windowOp = "done" =>
        /\ Len(hourlyScores) < windowHours => bestWindow = None
        /\ Len(hourlyScores) >= windowHours =>
             /\ bestWindow # None
             /\ bestWindow[1].start \in WindowStarts
             /\ bestWindow[1].end = bestWindow[1].start + windowHours - 1
             /\ bestWindow[1].sum = WindowSum(bestWindow[1].start)
             /\ \A j \in WindowStarts :
                  /\ WindowSum(j) <= WindowSum(bestWindow[1].start)
                  /\ j < bestWindow[1].start
                       => WindowSum(j) < WindowSum(bestWindow[1].start)
        /\ ([i \in 1..Len(hourlyScores) |-> hourlyScores[i].score]
                = <<40, 60, 90, 85, 30>> /\ windowHours = 3)
             => bestWindow[1].start = 1

C8_Witness ==
    /\ windowOp = "done"
    /\ [i \in 1..Len(hourlyScores) |-> hourlyScores[i].score] = <<40, 60, 90, 85, 30>>
    /\ windowHours = 3
    /\ bestWindow = Some([start |-> 1, end |-> 3, sum |-> 235])

\* A tie between two spans is resolved towards the earlier one.
C8_WitnessTie ==
    /\ windowOp = "done"
    /\ windowHours = 2
    /\ [i \in 1..Len(hourlyScores) |-> hourlyScores[i].score] = <<30, 90, 60, 90>>
    /\ bestWindow[1].start = 1

C8_WitnessNull ==
    /\ windowOp = "done"
    /\ Len(hourlyScores) = 2
    /\ windowHours = 3
    /\ bestWindow = None

---------------------------------------------------------------------------
(* Properties of the Community Signal Aggregator (SpecCommunity) *)

\* The reports that count: approved, inside the radius, not older than `hours`
Counted(hours) ==
    {i \in 1..Len(reports) :
        /\ reports[i].moderated /\ reports[i].approved
        /\ reports[i].lat \in (0 - DefaultRadiusMeters)..DefaultRadiusMeters
        /\ summaryNow - reports[i].created_at <= hours}

\* C6: the level is strong exactly when 4 or more count in the last 2h or 6
\* or more in the last 24h, otherwise moderate from 2 in the last 2h,
\* otherwise minor from 1, otherwise none; four odor reports in the last 2h
\* give strong and odor, no reports give none and no explanation.
C6_Levels ==
    communityOp = "summarized" =>
        LET n2     == Cardinality(Counted(2))
            n24    == Cardinality(Counted(24))
            strong == n2 >= 4 \/ n24 >= 6
        IN  /\ summary.level = "strong" <=> strong
            /\ summary.level = "moderate" <=> (~strong /\ n2 >= 2)
            /\ summary.level = "minor" <=> (~strong /\ n2 = 1)
            /\ summary.level = "none" <=> (~strong /\ n2 = 0)
            /\ (Len(reports) = 4 /\ n2 = 4
                    /\ \A i \in 1..4 : reports[i].type = "odor")
                 => (summary.level = "strong" /\ summary.type = "odor")
            /\ reports = <<>> => (summary.level = "none" /\ summary.why = <<>>)

C6_Witness ==
    /\ communityOp = "summarized"
    /\ Len(reports) = 4
    /\ \A i \in 1..4 : reports[i] = Report(0, "odor", 500, 6, SummaryHour - 2, TRUE, TRUE)
    /\ summary.level = "strong"
    /\ summary.type = "odor"

\* Six reports in the last 24h, fewer than four of them in the last 2h
C6_Witness24h ==
    /\ communityOp = "summarized"
    /\ Cardinality(Counted(2)) = 1
    /\ Cardinality(Counted(24)) = 6
    /\ summary.level = "strong"

---------------------------------------------------------------------------
(* Properties of the report store (SpecStore) *)

\* The ids whose report was last approved: by a moderation, or in the seed
\* data when no moderation has touched it since.
LastApproved ==
    {reportsCache[i].id : i \in
        {j \in 1..Len(reportsCache) :
            \/ lastModeration[reportsCache[j].id] = "approve"
            \/ /\ lastModeration[reportsCache[j].id] = "seed"
               /\ reportsCache[j].moderated /\ reportsCache[j].approved}}

CacheOfType(type) ==
    {i \in 1..Len(reportsCache) :
        reportsCache[i].type = type /\ reportsCache[i].id \in LastApproved}

\* C7: after any submissions and moderations, the public listing returns and
\* the summary counts only reports that are moderated and approved alertsNow; a
\* report never approved, or last rejected, is in neither.
C7_OnlyApproved ==
    /\ (storeResp.op = "list" /\ ~storeResp.all) =>
          \A k \in 1..Len(storeResp.reports) :
             /\ storeResp.reports[k].id \in LastApproved
             /\ storeResp.reports[k].moderated /\ storeResp.reports[k].approved
             /\ \E i \in 1..Len(reportsCache) : reportsCache[i] = storeResp.reports[k]
    /\ storeResp.op = "summary" =>
          /\ storeResp.summary.counts.odor_2h <= storeResp.summary.counts.odor_24h
          /\ storeResp.summary.counts.odor_24h <= Cardinality(CacheOfType("odor"))
          /\ storeResp.summary.counts.debris_2h <= storeResp.summary.counts.debris_24h
          /\ storeResp.summary.counts.debris_24h <= Cardinality(CacheOfType("debris"))
          /\ LastApproved = {} => storeResp.summary.level = "none"

\* A summary taken while one report is approved and another, of the same
\* beach and inside the radius, was approved and then rejected
C7_Witness ==
    /\ storeResp.op = "summary"
    /\ storeResp.beach_id = Some(6)
    /\ Len(reportsCache) = 2
    /\ \A i \in 1..2 : reportsCache[i].lat = 500 /\ reportsCache[i].created_at = clock
    /\ reportsCache[1].moderated /\ reportsCache[1].approved
    /\ reportsCache[2].moderated /\ ~reportsCache[2].approved
    /\ lastModeration[reportsCache[2].id] = "reject"
    /\ storeResp.summary.level = "minor"

\* A public listing that leaves out a pending report
C7_WitnessList ==
    /\ storeResp.op = "list" /\ ~storeResp.all
    /\ Len(reportsCache) = 2
    /\ Len(storeResp.reports) = 1
    /\ ~reportsCache[2].moderated

---------------------------------------------------------------------------
(* GET /api/alerts *)

alertsComposed == pc = "done" /\ response.status = 200

alertsTime == fetched.envData.hourly.time

\* idx is the lowest 0-based index whose timestamp is closest to target
IsFirstClosest(time, target, idx) ==
    /\ idx \in 0..(Len(time) - 1)
    /\ \A j \in 0..(Len(time) - 1) :
         AbsDiff(time[idx + 1], target) <= AbsDiff(time[j + 1], target)
    /\ \A j \in 0..(idx - 1) :
         AbsDiff(time[idx + 1], target) < AbsDiff(time[j + 1], target)

GapFreeHourly(time) == \A i \in 1..Len(time) : time[i] = time[1] + 2 * (i - 1)

\* C9: for each horizon the composition resolves the lowest index whose
\* timestamp is closest to now + horizon, and the risk level and comfort
\* score of that horizon are those of the values at that index; for a
\* gap-free hourly series of at least 25 points and a request at its first
\* instant, the index resolved for the 24h horizon is 24.
C9_ClosestIndex ==
    (alertsComposed /\ Len(alertsTime) > 0) =>
        /\ \A h \in Horizons :
             /\ IsFirstClosest(alertsTime, alertsNow + 2 * h, resolved.risk[h])
             /\ IsFirstClosest(alertsTime, alertsNow + 2 * h, resolved.comfort[h])
        /\ \A h \in Horizons \ {0} :
             getRiskAtHour(fetched.envData.hourly, alertsNow, h, fetched.communityData.level)
               = riskPointsToLevel(calculateRiskPoints(
                     RiskFactorsAt(fetched.envData.hourly, resolved.risk[h])))
        /\ response.body[1].safety.risk_24h
             = riskPointsToLevel(calculateRiskPoints(
                   RiskFactorsAt(fetched.envData.hourly, resolved.risk[24])))
        /\ response.body[1].comfort.score_24h
             = calculateComfortScore(
                   ComfortFactorsAt(fetched.envData.hourly, resolved.comfort[24],
                                    fetched.oceanData))
        /\ (GapFreeHourly(alertsTime) /\ Len(alertsTime) >= 25 /\ alertsNow = alertsTime[1]) =>
             resolved.risk[24] = 24 /\ resolved.comfort[24] = 24

\* A gap-free series of 25 points, asked at its first instant
C9_Witness ==
    /\ alertsComposed
    /\ Len(alertsTime) = 25
    /\ GapFreeHourly(alertsTime)
    /\ alertsNow = alertsTime[1]
    /\ resolved.risk[24] = 24

\* Half an hour later indices 24 and 25 are equally close: the lower is kept
C9_WitnessTie ==
    /\ alertsComposed
    /\ Len(alertsTime) = SeriesLength + 3
    /\ AbsDiff(alertsTime[25], alertsNow + 48) = AbsDiff(alertsTime[26], alertsNow + 48)
    /\ resolved.risk[24] = 24
    /\ resolved.comfort[24] = 24

Failed(o) == o \in {"http_error", "bad_json", "rejected"}

\* C10: whichever of the four upstream fetches fail, a request whose beach
\* was resolved ends with a complete AlertsResponse in which every failed
\* source is replaced by its neutral default: no regulator entry, the flat
\* mock hourly series, no water temperature, community level none.
C10_FailuresAbsorbed ==
    (pc = "done" /\ beach # None) =>
        /\ response.status = 200
        /\ response.body # None
        /\ Failed(outcome.status) =>
             response.body[1].safety.official.state = "Open"
        /\ Failed(outcome.env) =>
             response.body[1].weather =
                 [air_temp_f |-> 70, feels_like_f |-> 68, wind_mph |-> 5,
                  wind_dir_deg |-> 270, uv_index |-> 3]
        /\ Failed(outcome.ocean) =>
             response.body[1].ocean.water_temp_f = None
        /\ Failed(outcome.community) =>
             response.body[1].community.level = "none"

\* The factors of the flat series the weather route answers with when its
\* provider fails: air 70, feels-like 68, wind 5 mph from 270, UV 3, wave 0.6
FlatComfortFactors ==
    [airTemp |-> 70, feelsLike |-> 68, waterTemp |-> WaterTempOf(fetched.oceanData),
     windSpeed |-> 5, windDir |-> 270, uvIndex |-> 3, waveHeight |-> metersToFeet(6)]

providerFailed ==
    /\ pc = "done"
    /\ Failed(outcome.provider)
    /\ ~Throws(outcome.status)
    /\ ~Throws(outcome.ocean)

alertsRegistry == IF outcome.beaches = "ok" THEN Beaches ELSE <<>>

\* C12: with a beach id in the request the beach with exactly that id is
\* used, and when no registry beach has it the request ends with a 4xx
\* outcome and no beach; without an id the nearest registry beach is used,
\* and an empty registry ends with a 4xx outcome.
C12_ExplicitIdOrNotFound ==
    (pc = "done" /\ request.lat # None /\ ~Throws(outcome.beaches)) =>
        LET ids == {i \in 1..Len(alertsRegistry) :
                       request.beach_id # None /\ alertsRegistry[i].id = request.beach_id[1]}
        IN  IF request.beach_id # None
              THEN IF ids # {}
                     THEN \E i \in ids : beach = Some(alertsRegistry[i])
                     ELSE beach = None /\ response.status \in 400..499
              ELSE IF Len(alertsRegistry) = 0
                     THEN beach = None /\ response.status \in 400..499
                     ELSE beach = NearestBeach(alertsRegistry, request.lat[1])

---------------------------------------------------------------------------
(* Repeated requests *)

EqualExceptAsOf(r1, r2) ==
    /\ r1.status = r2.status
    /\ r1.error = r2.error
    /\ (r1.body = None) = (r2.body = None)
    /\ r1.body # None =>
         [r1.body[1] EXCEPT !.as_of = 0] = [r2.body[1] EXCEPT !.as_of = 0]

---------------------------------------------------------------------------
(* The Forecast Grid Interpreter *)

\* C14: for an empty cell grid summarizeTilesNearBeach returns exactly
\* safety slow, comfort 50, risk class medium, uncertainty 1 and why
\* ["noData"], whatever the environmental bundle and the regulator status.
C14_EmptyGridDefault ==
    (gridOp = "summarized" /\ Len(cells) = 0) =>
        tileSummary = [safety |-> "slow", comfort |-> 50, riskClass |-> "medium",
                       why |-> <<"noData">>, uncertainty |-> 10]

\* An empty grid for a closed beach with a full bundle
C14_Witness ==
    /\ gridOp = "summarized"
    /\ Len(cells) = 0
    /\ official = "closed"
    /\ envNow # None
    /\ tileSummary.safety = "slow"

\* C20: the interpreter maps the first cell's risk class by the status
\* dominance rule of the Risk Classifier: closed gives nogo and advisory
\* gives a verdict other than go for every risk class; with no status or
\* open, high gives nogo, medium slow and low go.
C20_StatusDominance ==
    (gridOp = "summarized" /\ Len(cells) > 0) =>
        /\ official = "closed" => tileSummary.safety = "nogo"
        /\ official = "advisory" => tileSummary.safety # "go"
        /\ official \in {Undefined, "open"} =>
              tileSummary.safety = CASE cells[1].riskClass = "high" -> "nogo"
                                     [] cells[1].riskClass = "medium" -> "slow"
                                     [] OTHER -> "go"

---------------------------------------------------------------------------
(* GET /api/tiles *)

\* C15: GET /api/tiles answers with a 2xx status and a body that has a
\* success property for every value of when, an invalid one included, and
\* also when the inference provider fails or is unreachable; when success is
\* true, data.cells is an array.
C15_AlwaysSuccessStatus ==
    tilesPc = "done" =>
        /\ tilesResponse.status \in 200..299
        /\ "success" \in DOMAIN tilesResponse.body
        /\ tilesResponse.body.success =>
              /\ "cells" \in DOMAIN tilesResponse.body.data
              /\ DOMAIN tilesResponse.body.data.cells
                    = 1..Len(tilesResponse.body.data.cells)

\* The regulator entry the composition joined to the resolved beach
joinedStatus == CountyStatusOf(fetched.statusData.beaches, beach[1])

\* The beach's name, in lower case, holds an entry of the south-bay list
OnSouthBayList(b) == \E sb \in SOUTH_BAY_BEACHES : Includes(toLowerCase(b.name), sb)

\* The verdict as a function of the risk level and the regulator state of
\* the response
VerdictOf(level, state) ==
    IF state = "Closed" THEN "No-Go"
    ELSE IF state = "Advisory" THEN "Slow"
    ELSE IF level = "High" THEN "No-Go"
    ELSE IF level = "Moderate" THEN "Slow"
    ELSE "Go"

\* C16: the safety verdict is a function of the regulator state and risk_now
\* alone, whatever the reason text and whether or not the beach is a south-bay
\* beach, and south_bay_flag is true exactly when the reason text matches the
\* sewage pattern and the beach is on the south-bay allow-list.
C16_SewageFlagAdditive ==
    alertsComposed =>
        LET body == response.body[1]
        IN  /\ body.safety.status
                 = VerdictOf(body.safety.risk_now, body.safety.official.state)
            /\ body.pollution.south_bay_flag
                 = (/\ isSewageRelated(officialReasonOf(joinedStatus))
                    /\ OnSouthBayList(beach[1]))

\* The join of the specification: the normalized names are equal or one
\* contains the other
NamesJoin(entryName, beachName) ==
    \/ normalizeBeachName(entryName) = normalizeBeachName(beachName)
    \/ Includes(normalizeBeachName(entryName), normalizeBeachName(beachName))
    \/ Includes(normalizeBeachName(beachName), normalizeBeachName(entryName))

StateOfStatus(status) ==
    IF status = "closure" THEN "Closed" ELSE IF status = "advisory" THEN "Advisory" ELSE "Open"

\* C17: a regulator entry whose normalized name equals that of the resolved
\* beach, or contains it or is contained in it, is applied to the beach; when
\* no entry matches, the official state is Open and the verdict comes from
\* risk_now alone (High -> No-Go, Moderate -> Slow, Low -> Go).
C17_RegulatorJoin ==
    alertsComposed =>
        LET body    == response.body[1]
            entries == fetched.statusData.beaches
            hits    == {i \in 1..Len(entries) : NamesJoin(entries[i].name, beach[1].name)}
        IN  IF hits = {}
              THEN /\ body.safety.official.state = "Open"
                   /\ body.safety.status = VerdictOf(body.safety.risk_now, "Open")
              ELSE \E i \in hits :
                      body.safety.official.state = StateOfStatus(entries[i].status)

\* precip[j] for a 0-based j, a missing value counting as 0
PrecipAt(precip, j) == IF j + 1 <= Len(precip) THEN precip[j + 1] ELSE 0

\* The sum of the values lo .. hi of the series
RECURSIVE PrecipTotal(_, _, _)
PrecipTotal(precip, lo, hi) ==
    IF lo > hi THEN 0
    ELSE IF lo = hi THEN PrecipAt(precip, lo)
    ELSE PrecipTotal(precip, lo, (lo + hi) \div 2)
           + PrecipTotal(precip, (lo + hi) \div 2 + 1, hi)

\* C18: the rainfall handed to the Risk Classifier at a horizon is the sum of
\* exactly 72 hourly precipitation values ending at the resolved index, or of
\* all values from index 0 through the resolved index when fewer than 72
\* precede it; a missing value counts as 0.
C18_Rain72Values ==
    (alertsComposed /\ Len(alertsTime) > 0) =>
        \A h \in Horizons :
            RiskFactorsAt(fetched.envData.hourly, resolved.risk[h]).rain72h
              = PrecipTotal(fetched.envData.hourly.precip,
                            IF resolved.risk[h] - 71 > 0 THEN resolved.risk[h] - 71 ELSE 0,
                            resolved.risk[h])

\* The risk points of the weather at the index resolved for a horizon; an
\* empty series has none
WeatherPoints(h) ==
    IF Len(alertsTime) = 0 THEN 0
    ELSE calculateRiskPoints(RiskFactorsAt(fetched.envData.hourly, resolved.risk[h]))

CommunityPoint == IF fetched.communityData.level \in {"moderate", "strong"} THEN 1 ELSE 0

C21_NearestCell ==
    (gridOp = "summarized" /\ Len(cells) > 0) =>
        \E i \in 1..Len(cells) :
            /\ \A j \in 1..Len(cells) :
                  haversineMeters(cells[i].lat, GridBeach.lat)
                    <= haversineMeters(cells[j].lat, GridBeach.lat)
            /\ tileSummary.riskClass = cells[i].riskClass
            /\ tileSummary.uncertainty = cells[i].uncertainty

\* C22: every alerts request eventually completes, with a response or a typed
\* error, even when an upstream source never responds.
C22_EventuallyCompletes == <>(pc = "done")

---------------------------------------------------------------------------
(* The report store: moderation *)

\* C23: a report is mutated at most once by moderation: once moderated is
\* true, no later step changes its moderated or approved flag, so an approved
\* report never becomes rejected and a rejected one never becomes approved.
C23_ModeratedOnce ==
    [][\A i \in 1..Len(reportsCache) :
          reportsCache[i].moderated =>
              /\ reportsCache'[i].moderated = reportsCache[i].moderated
              /\ reportsCache'[i].approved = reportsCache[i].approved]_vars

---------------------------------------------------------------------------
(* The Comfort Scorer: the water sub-score *)

\* C24: the water sub-score that enters the comfort score is the neutral 0.5
\* exactly when the water temperature is null; for every known temperature,
\* 0 included, it is the banded value of scoreWaterTemp.
C24_WaterSubScore ==
    comfortOp = "scored" =>
        comfortScore
          = WeightedRound(scoreFeelsLike(comfortFactors.feelsLike),
                          IF comfortFactors.waterTemp = None THEN 5
                          ELSE scoreWaterTemp(comfortFactors.waterTemp[1]),
                          scoreWind(comfortFactors.windSpeed, comfortFactors.windDir),
                          scoreUV(comfortFactors.uvIndex),
                          scoreWaves(comfortFactors.waveHeight))

---------------------------------------------------------------------------
(* GET /api/alerts: the verdict without a weather series *)

\* C25: when the weather series is unavailable (the time array is empty) the
\* verdict of a composed response is Slow or No-Go and never Go, whatever the
\* regulator status and the community level.
C25_ConservativeWithoutWeather ==
    (alertsComposed /\ Len(alertsTime) = 0) =>
        response.body[1].safety.status \in {"Slow", "No-Go"}

---------------------------------------------------------------------------
(* GET /api/sd/env: the bundle handed to the composition *)

HourlyVariables ==
    {"temp", "app_temp", "wind_spd", "wind_dir", "precip", "uv", "wave_h", "wave_p",
     "wave_dir", "sst"}

\* C26: every bundle the weather route returns, from the providers' answers
\* as well as from its fallback, has each of its hourly arrays of the length
\* of its time array.
C26_ArraysAligned ==
    (pc \in {"community", "done"} /\ outcome.env = "ok"
        /\ ~Throws(outcome.status) /\ ~Throws(outcome.ocean)) =>
        \A k \in HourlyVariables :
            Len(fetched.envData.hourly[k]) = Len(fetched.envData.hourly.time)

---------------------------------------------------------------------------
(* The community summary: its counts, type and level together *)

\* C27: in every summary each 2-hour count is at most the 24-hour count of
\* its type, the dominant type is null exactly when the 2-hour total is 0,
\* and level none implies a 2-hour total of 0 and a 24-hour total below 6.
C27_SummaryConsistent ==
    communityOp = "summarized" =>
        LET c == summary.counts
        IN  /\ c.odor_2h <= c.odor_24h
            /\ c.debris_2h <= c.debris_24h
            /\ summary.type = "null" <=> c.odor_2h + c.debris_2h = 0
            /\ summary.level = "none" =>
                  /\ c.odor_2h + c.debris_2h = 0
                  /\ c.odor_24h + c.debris_24h < 6

\* Debris reports in the last 24 hours, no report in the last 2
C27_Witness ==
    /\ communityOp = "summarized"
    /\ summary.level = "none"
    /\ summary.type = "null"
    /\ summary.counts.debris_2h = 0
    /\ summary.counts.debris_24h = 5

\* Debris reports in the last 2 hours next to older ones
C27_WitnessBoth ==
    /\ communityOp = "summarized"
    /\ summary.counts.debris_2h > 0
    /\ summary.counts.debris_2h < summary.counts.debris_24h
    /\ summary.type = "debris"

---------------------------------------------------------------------------
(* normalizeBeachName as a canonical form *)

Punctuation == {"-", "."}

WithoutPunctuation(str) == SelectSeq(str, LAMBDA c : c \notin Punctuation)

\* C28: normalizing a normalized name returns it unchanged, and a name
\* normalizes to the same string as the name in lower case and as the name
\* without its punctuation.
C28_IdempotentCanonical ==
    nameOp = "twice" =>
        /\ renormalized = normalized
        /\ normalizeBeachName(toLowerCase(nameText)) = normalized
        /\ normalizeBeachName(WithoutPunctuation(nameText)) = normalized

---------------------------------------------------------------------------
(* The recent-beaches list *)

recentList == getRecentBeaches(recentStored)

\* C29: after any calls of addRecentBeach and clearRecentBeaches the stored
\* list has at most 10 entries and no two entries with the same id; after an
\* add the added beach is at position 0 and the others follow in the order
\* of their last addition; re-adding a listed beach leaves the length as it
\* was, and adding another beach makes the list one longer up to 10.
C29_RecentList ==
    /\ Len(recentList) <= 10
    /\ \A i, j \in 1..Len(recentList) :
          i < j => /\ recentList[i].id # recentList[j].id
                   /\ recentList[i].lastViewed > recentList[j].lastViewed
    /\ lastView.op = "add" =>
          /\ recentList # <<>>
          /\ recentList[1].id = lastView.id
          /\ recentList[1].lastViewed = viewClock - 1
          /\ Len(recentList) = IF lastView.listed \/ lastView.length = 10
                                 THEN lastView.length ELSE lastView.length + 1
    /\ lastView.op = "clear" => recentList = <<>>

\* A full list whose oldest beach is viewed again
C29_Witness ==
    /\ lastView.op = "add"
    /\ lastView.listed
    /\ lastView.length = 10
    /\ Len(recentList) = 10
    /\ recentList[1].lastViewed > recentList[2].lastViewed + 1

\* An eleventh beach pushes the oldest one out
C29_WitnessFull ==
    /\ lastView.op = "add"
    /\ ~lastView.listed
    /\ lastView.length = 10
    /\ Len(recentList) = 10

\* The kinds of the entries of safety.why
WhyKinds == {response.body[1].safety.why[i].kind : i \in 1..Len(response.body[1].safety.why)}

\* The factors handed to the Risk Classifier for risk_now
NowFactors == RiskFactorsAt(fetched.envData.hourly, resolved.risk[0])

\* C30: safety.why agrees with the risk computation at horizon 0: it has a
\* "Recent rain" entry exactly when the 72h rainfall handed to the Risk
\* Classifier for risk_now is at least 15mm, and the onshore-wind, high-waves
\* and high-UV entries exactly when that factor added a point to risk_now.
C30_WhyAgreesWithRisk ==
    (alertsComposed /\ Len(alertsTime) > 0) =>
        /\ ("Recent rain" \in WhyKinds) <=> (NowFactors.rain72h >= 15)
        /\ ("Strong onshore wind" \in WhyKinds)
             <=> (isOnshore(NowFactors.windDir) /\ NowFactors.windSpeed > 12)
        /\ ("High waves" \in WhyKinds) <=> (NowFactors.waveHeight >= 15)
        /\ ("High UV" \in WhyKinds) <=> (NowFactors.uvIndex >= 7)

=============================================================================
